---- MODULE Spec2Model ----
(***************************************************************************)
(* A model of one conversation turn of the Chative agent graph:            *)
(* InputConverter -> NLUChatModel -> Parser -> (HumanHandoff |             *)
(* ResponseAssembler) -> ResponseChatModel -> (ToolExecutor | END), with   *)
(* the per-invocation AppState, the Redis conversation store, the tool     *)
(* budget handlers, the cost accumulation and the run-step ceiling.        *)
(*                                                                         *)
(* Conventions.  A nil pointer or nil error is the empty sequence / the    *)
(* string "nil".  Confidences are in thousandths (0.94 is 940).  Costs are *)
(* float64 values, computed with float64 rounding.                         *)
(* A raw NLU answer is a sequence of records; a record is the sequence of  *)
(* its fields together with whether its outer parentheses are in place.    *)
(***************************************************************************)
EXTENDS Integers, Sequences, FiniteSets, TLC

VARIABLES
    cfg,            \* construction-time configuration (GraphConfig / ChatModels)
    in,             \* the QueryInput of the invocation
    store,          \* the Redis lists: conversation id -> sequence of messages
    store0,         \* history: the store as it was when the invocation began
    storeOps,       \* history: the repository calls made, with their outcome
    state,          \* the AppState of the invocation
    pc,             \* the node the runner executes next, END or ERR
    payload,        \* the output of the last node, input of the next
    trace,          \* history: the nodes executed so far, in order
    executedCalls,  \* history: individual tool calls run by the tools node
    ret,            \* what graphRunner.Invoke returns
    modelCalls,     \* history: the model calls that returned, with their usage
    parked          \* the other invocation in flight, while this one runs

vars == <<cfg, in, store, store0, storeOps, state, pc, payload, trace,
          executedCalls, ret, modelCalls, parked>>

----------------------------------------------------------------------------
(* Bounds of the exploration.                                              *)

MaxCfg == 6
MaxPrior == 2

(* Program constants.                                                      *)

DefaultMaxToolCalls == 10
MinRunSteps == 20
BaseRunSteps == 10
HandoffThreshold == 940
maxRecords == 500
maxContentLen == 131072
endDelimLen == 12
recDelimLen == 2
tupDelimLen == 4

NoErr == "nil"

NodeInputConverter == "InputConverter"
NodeNLUChatModel == "NLUChatModel"
NodeParser == "Parser"
NodeHumanHandoff == "HumanHandoff"
NodeResponseAssembler == "ResponseAssembler"
NodeResponseChatModel == "ResponseChatModel"
NodeToolExecutor == "ToolExecutor"
END == "END"
ERR == "ERR"

Terminal == {END, ERR}

GraphNodes ==
    {NodeInputConverter, NodeNLUChatModel, NodeParser, NodeHumanHandoff,
     NodeResponseAssembler, NodeResponseChatModel, NodeToolExecutor}

ToolSearchProduct == "search_product"
ToolGetProductDetails == "get_product_details"

RegisteredTools == {ToolSearchProduct, ToolGetProductDetails}

HandoffText == "Human intervention required for negative sentiment. Case escalated to admin."

----------------------------------------------------------------------------
(* Messages (schema.Message: the fields the graph reads or writes).        *)

Msg(role, content, calls, callID) ==
    [Role |-> role, Content |-> content, ToolCalls |-> calls, ToolCallID |-> callID]

SystemMessage(content) == Msg("system", content, <<>>, "")
UserMessage(content) == Msg("user", content, <<>>, "")
AssistantMessage(content, calls) == Msg("assistant", content, calls, "")
ToolMessage(content, callID) == Msg("tool", content, <<>>, callID)

ToolCall(id, name) == [ID |-> id, Name |-> name]

(* strings.TrimSpace over the texts the model uses.                        *)
TrimSpace(s) ==
    CASE s = " " -> ""
      [] s = "  " -> ""
      [] s = " tha " -> "tha"
      [] s = " 1 " -> "1"
      [] s = " negative " -> "negative"
      [] s = " 0.95 " -> "0.95"
      [] OTHER -> s

(* fmt.Sprintf("call_%d", n)                                               *)
SynthID(n) == "call_" \o ToString(n)

----------------------------------------------------------------------------
(* The tool budget helpers (nodes/utils.go).  Each returns the new state   *)
(* and the boolean the Go function returns.                                *)

normalizeMaxToolCalls(n) == IF n <= 0 THEN DefaultMaxToolCalls ELSE n

checkAndMarkToolLimitStrict(s, max) ==
    LET m == normalizeMaxToolCalls(max)
    IN  IF ~s.ToolCallLimitReached /\ s.ToolCallCount > m
        THEN [state |-> [s EXCEPT !.ToolCallLimitReached = TRUE], marked |-> TRUE]
        ELSE [state |-> s, marked |-> FALSE]

checkAndMarkToolLimit(s, max) ==
    LET m == normalizeMaxToolCalls(max)
    IN  IF ~s.ToolCallLimitReached /\ s.ToolCallCount >= m
        THEN [state |-> [s EXCEPT !.ToolCallLimitReached = TRUE], marked |-> TRUE]
        ELSE [state |-> s, marked |-> FALSE]

incrementToolCallAndCheck(s, max) ==
    LET m == normalizeMaxToolCalls(max)
        s1 == [s EXCEPT !.ToolCallCount = @ + 1]
    IN  IF s1.ToolCallCount > m
        THEN [state |-> [s1 EXCEPT !.ToolCallLimitReached = TRUE], exceeded |-> TRUE]
        ELSE [state |-> s1, exceeded |-> FALSE]

(* The run-step ceiling (graph.go, compile).  The second definition is the *)
(* ceiling computed from the raw setting, as the code does; the first is   *)
(* the variant that normalizes the setting first.                          *)

MaxRunStepsNormalized(maxCalls) ==
    LET maxSteps == BaseRunSteps + normalizeMaxToolCalls(maxCalls) * 2
    IN  IF maxSteps < MinRunSteps THEN MinRunSteps ELSE maxSteps

MaxRunSteps(maxCalls) ==
    LET maxSteps == BaseRunSteps + maxCalls * 2
    IN  IF maxSteps < MinRunSteps THEN MinRunSteps ELSE maxSteps

WrapUpNotice(max) ==
    SystemMessage("SYSTEM NOTICE: You have reached the maximum tool call limit ("
                  \o ToString(normalizeMaxToolCalls(max)) \o ").")

IsWrapUp(m) == m.Role = "system" /\ m.Content = WrapUpNotice(cfg.ToolMaxCalls).Content

----------------------------------------------------------------------------------------------------------------------------------------
(* float64 arithmetic.  A non-negative finite float64 is held exactly, as  *)
(* the natural number value * 2^FixedExp, written in limbs of LimbBits     *)
(* bits, least significant first, without a leading zero limb (zero is the *)
(* empty sequence).  Each operation computes the exact result and rounds   *)
(* it to MantissaBits significant bits, to nearest, ties to even.          *)

MantissaBits == 53
LimbBits == 10
FixedExp == 80

Base == 2^LimbBits

FloatZero == <<>>

Zeros(k) == [i \in 1..k |-> 0]

RECURSIVE Canon(_)
Canon(a) == IF a = <<>> \/ a[Len(a)] # 0 THEN a ELSE Canon(SubSeq(a, 1, Len(a) - 1))

RECURSIVE ToLimbs(_)
ToLimbs(n) == IF n = 0 THEN <<>> ELSE <<n % Base>> \o ToLimbs(n \div Base)

RECURSIVE AddLimbs(_, _, _)
AddLimbs(a, b, carry) ==
    IF a = <<>> /\ b = <<>> THEN ToLimbs(carry)
    ELSE LET x == IF a = <<>> THEN 0 ELSE Head(a)
             y == IF b = <<>> THEN 0 ELSE Head(b)
             s == x + y + carry
         IN  <<s % Base>> \o AddLimbs(IF a = <<>> THEN a ELSE Tail(a),
                                      IF b = <<>> THEN b ELSE Tail(b), s \div Base)

RECURSIVE MulLimbs(_, _, _)
MulLimbs(a, t, carry) ==
    IF a = <<>> THEN ToLimbs(carry)
    ELSE LET s == Head(a) * t + carry
         IN  <<s % Base>> \o MulLimbs(Tail(a), t, s \div Base)

(* Long division by a small divisor, most significant limb first.          *)
RECURSIVE DivLoop(_, _, _, _, _)
DivLoop(a, d, i, r, q) ==
    IF i = 0 THEN [q |-> Canon(q), r |-> r]
    ELSE LET x == r * Base + a[i]
         IN  DivLoop(a, d, i - 1, x % d, <<x \div d>> \o q)

ShiftLeft(a, k) ==
    IF a = <<>> THEN a
    ELSE Zeros(k \div LimbBits) \o Canon(MulLimbs(a, 2^(k % LimbBits), 0))

BitLen(a) ==
    IF a = <<>> THEN 0
    ELSE (Len(a) - 1) * LimbBits
         + Cardinality({k \in 0..(LimbBits - 1) : 2^k <= a[Len(a)]})

BitAt(a, i) == (a[(i \div LimbBits) + 1] \div 2^(i % LimbBits)) % 2

(* a with its d low bits cleared.                                          *)
ClearLow(a, d) ==
    [j \in 1..Len(a) |->
        IF j <= d \div LimbBits THEN 0
        ELSE IF j = (d \div LimbBits) + 1
             THEN (a[j] \div 2^(d % LimbBits)) * 2^(d % LimbBits)
             ELSE a[j]]

(* sticky: the exact result has non-zero bits below those of n.            *)
RoundNearestEven(n, sticky) ==
    IF BitLen(n) <= MantissaBits THEN n
    ELSE LET d == BitLen(n) - MantissaBits
             more == sticky \/ \E i \in 0..(d - 2) : BitAt(n, i) = 1
             up == BitAt(n, d - 1) = 1 /\ (more \/ BitAt(n, d) = 1)
             kept == ClearLow(n, d)
         IN  IF up THEN AddLimbs(kept, ShiftLeft(<<1>>, d), 0) ELSE kept

(* The float64 of mantissa hi * 2^27 + lo and binary exponent e.           *)
Float64(hi, lo, e) ==
    ShiftLeft(AddLimbs(ToLimbs(lo), ShiftLeft(ToLimbs(hi), 27), 0), e + FixedExp)

FloatAdd(a, b) == RoundNearestEven(AddLimbs(a, b, 0), FALSE)

(* a * float64(t) and a / float64(d) for integers t, d below 2^21.         *)
FloatMul(a, t) == RoundNearestEven(Canon(MulLimbs(a, t, 0)), FALSE)

FloatDiv(a, d) ==
    LET r == DivLoop(a, d, Len(a), 0, <<>>)
    IN  RoundNearestEven(r.q, r.r # 0)

FloatLE(a, b) ==
    \/ a = b
    \/ Len(a) < Len(b)
    \/ /\ Len(a) = Len(b)
       /\ \E i \in 1..Len(a) :
            /\ a[i] < b[i]
            /\ \A j \in (i + 1)..Len(a) : a[j] = b[j]

----------------------------------------------------------------------------
(* Cost (model pricing): USD per million tokens, as float64 values.        *)

Million == 1000000

Rate030 == Float64(40265318, 53687091, -54)
Rate250 == Float64(0, 5, -1)
Rate010 == Float64(26843545, 80530637, -55)
Rate040 == Float64(26843545, 80530637, -53)

defaultPricing ==
    [m \in {"gemini-2.5-flash", "gemini-2.5-flash-lite"} |->
        IF m = "gemini-2.5-flash"
        THEN [InputPerM |-> Rate030, OutputPerM |-> Rate250]
        ELSE [InputPerM |-> Rate010, OutputPerM |-> Rate040]]

ResolvePricingFallback(modelName) ==
    IF modelName \in DOMAIN defaultPricing THEN defaultPricing[modelName]
    ELSE defaultPricing["gemini-2.5-flash"]

ResolvePricing(modelName) ==
    IF modelName \in DOMAIN defaultPricing THEN defaultPricing[modelName]
    ELSE [InputPerM |-> FloatZero, OutputPerM |-> FloatZero]

(* The total of ComputeCost: inputCost + outputCost.                       *)
ComputeCost(usage, p) ==
    IF usage = <<>> THEN FloatZero
    ELSE FloatAdd(FloatDiv(FloatMul(p.InputPerM, usage[1].PromptTokens), Million),
                  FloatDiv(FloatMul(p.OutputPerM, usage[1].CompletionTokens), Million))

AccumulateCostOverwrite(s, usage, modelName) ==
    IF usage # <<>>
    THEN [s EXCEPT !.TotalCostUSD = ComputeCost(usage, ResolvePricing(modelName))]
    ELSE s

(* The cost part shared by both chat-model post-handlers.                  *)
AccumulateCost(s, usage, modelName) ==
    IF usage # <<>>
    THEN [s EXCEPT !.TotalCostUSD = FloatAdd(@, ComputeCost(usage, ResolvePricing(modelName)))]
    ELSE s

----------------
(* The NLU parser (parsers/nlu_parser.go).                                 *)

RawRecord(wrapped, fields) == [Wrapped |-> wrapped, Fields |-> fields]

(* Text between two record delimiters that is empty after TrimSpace.       *)
EmptyRecord == RawRecord(FALSE, <<>>)

RECURSIVE JoinFields(_)
JoinFields(fs) ==
    IF Len(fs) = 1 THEN fs[1] ELSE fs[1] \o "<||>" \o JoinFields(Tail(fs))

(* strings.SplitN(inner, tupDelim, 5): the fifth part keeps the rest.      *)
SplitN5(fields) ==
    IF Len(fields) <= 5 THEN fields
    ELSE SubSeq(fields, 1, 4) \o <<JoinFields(SubSeq(fields, 5, Len(fields)))>>

parseRawTuple(rec) ==
    IF ~rec.Wrapped THEN [err |-> "invalid tuple parens", Type |-> "", Parts |-> <<>>]
    ELSE LET parts == SplitN5(rec.Fields)
         IN  IF Len(parts) < 2
             THEN [err |-> "invalid tuple parts", Type |-> "", Parts |-> <<>>]
             ELSE [err |-> NoErr, Type |-> TrimSpace(parts[1]), Parts |-> parts]

ValidUTF8(s) == s # "<invalid-utf8>"

(* strconv.ParseFloat on the number texts the model uses, in thousandths.  *)
parseFloat(s) ==
    LET t == TrimSpace(s)
    IN  CASE t = "0" -> [err |-> NoErr, v |-> 0, finite |-> TRUE]
          [] t = "0.5" -> [err |-> NoErr, v |-> 500, finite |-> TRUE]
          [] t = "0.8" -> [err |-> NoErr, v |-> 800, finite |-> TRUE]
          [] t = "0.9" -> [err |-> NoErr, v |-> 900, finite |-> TRUE]
          [] t = "0.94" -> [err |-> NoErr, v |-> 940, finite |-> TRUE]
          [] t = "0.95" -> [err |-> NoErr, v |-> 950, finite |-> TRUE]
          [] t = "1" -> [err |-> NoErr, v |-> 1000, finite |-> TRUE]
          [] t = "1.5" -> [err |-> NoErr, v |-> 1500, finite |-> TRUE]
          [] t = "-0.1" -> [err |-> NoErr, v |-> -100, finite |-> TRUE]
          [] t = "NaN" -> [err |-> NoErr, v |-> 0, finite |-> FALSE]
          [] t = "Inf" -> [err |-> NoErr, v |-> 0, finite |-> FALSE]
          [] OTHER -> [err |-> "parse", v |-> 0, finite |-> TRUE]

parseFloatInRange(s, min, max) ==
    LET r == parseFloat(s)
    IN  IF r.err # NoErr THEN [err |-> r.err, v |-> 0]
        ELSE IF ~r.finite THEN [err |-> "invalid number", v |-> 0]
        ELSE IF r.v < min \/ r.v > max THEN [err |-> "out of range", v |-> 0]
        ELSE [err |-> NoErr, v |-> r.v]

(* A JSON value of a metadata map: a number (in thousandths), a string or  *)
(* an array of numbers.  A map is a set of <<key, value>> pairs.           *)
Num(n) == [kind |-> "number", num |-> n, str |-> "", arr |-> <<>>]
Str(t) == [kind |-> "string", num |-> 0, str |-> t, arr |-> <<>>]
Arr(a) == [kind |-> "array", num |-> 0, str |-> "", arr |-> a]

HasKey(m, key) == \E p \in m : p[1] = key

Lookup(m, key) == (CHOOSE p \in m : p[1] = key)[2]

Delete(m, key) == {p \in m : p[1] # key}

(* parseMeta on the metadata texts the model uses.  json.Unmarshal fails   *)
(* on a number that does not fit a float64.                                *)
parseMeta(s) ==
    LET t == TrimSpace(s)
    IN  CASE t = "" -> [err |-> NoErr, m |-> {}]
          [] t = "{}" -> [err |-> NoErr, m |-> {}]
          [] t = "{\"k\":1}" -> [err |-> NoErr, m |-> {<<"k", Num(1000)>>}]
          [] t = "{\"note\":\"a<||>b\"}" -> [err |-> NoErr, m |-> {<<"note", Str("a<||>b")>>}]
          [] t = "{\"polarity\":-0.5,\"subjectivity\":0.8}" ->
                [err |-> NoErr,
                 m |-> {<<"polarity", Num(-500)>>, <<"subjectivity", Num(800)>>}]
          [] t = "{\"polarity\":-1.5,\"subjectivity\":1.5}" ->
                [err |-> NoErr,
                 m |-> {<<"polarity", Num(-1500)>>, <<"subjectivity", Num(1500)>>}]
          [] t = "{\"polarity\":\"high\",\"subjectivity\":-0.1}" ->
                [err |-> NoErr,
                 m |-> {<<"polarity", Str("high")>>, <<"subjectivity", Num(-100)>>}]
          [] t = "{\"polarity\":1e999}" -> [err |-> "json: number out of range", m |-> {}]
          [] t = "{\"entity_position\":[2,5]}" ->
                [err |-> NoErr, m |-> {<<"entity_position", Arr(<<2000, 5000>>)>>}]
          [] t = "{\"entity_position\":[5,2]}" ->
                [err |-> NoErr, m |-> {<<"entity_position", Arr(<<5000, 2000>>)>>}]
          [] t = "{\"entity_position\":[-1,5]}" ->
                [err |-> NoErr, m |-> {<<"entity_position", Arr(<<-1000, 5000>>)>>}]
          [] t = "{\"entity_position\":[-0.5,3]}" ->
                [err |-> NoErr, m |-> {<<"entity_position", Arr(<<-500, 3000>>)>>}]
          [] t = "{\"entity_position\":[1,2,3]}" ->
                [err |-> NoErr, m |-> {<<"entity_position", Arr(<<1000, 2000, 3000>>)>>}]
          [] t = "{\"entity_position\":7}" ->
                [err |-> NoErr, m |-> {<<"entity_position", Num(7000)>>}]
          [] OTHER -> [err |-> "metadata not json object", m |-> {}]

(* int(x) of a float64: truncation toward zero.                            *)
IntOf(n) == IF n >= 0 THEN n \div 1000 ELSE -((-n) \div 1000)

(* The position, or nil.                                                   *)
normalizeEntityPosition(meta) ==
    IF ~HasKey(meta, "entity_position") THEN <<>>
    ELSE LET raw == Lookup(meta, "entity_position")
         IN  IF raw.kind # "array" \/ Len(raw.arr) # 2 THEN <<>>
             ELSE LET start == IntOf(raw.arr[1])
                      end == IntOf(raw.arr[2])
                  IN  IF start < 0 \/ end < 0 \/ start > end THEN <<>>
                      ELSE <<start, end>>

(* Keeps a number within [min, max] under the key; deletes anything else.  *)
KeepNumberIn(m, key, min, max) ==
    IF ~HasKey(m, key) THEN m
    ELSE LET v == Lookup(m, key)
         IN  IF v.kind = "number" /\ v.num >= min /\ v.num <= max THEN m
             ELSE Delete(m, key)

sanitizeSentimentMeta(m) ==
    KeepNumberIn(KeepNumberIn(m, "polarity", -1000, 1000), "subjectivity", 0, 1000)

sanitizeLanguageMeta(m) ==
    LET m1 == IF HasKey(m, "detected_tokens")
                 /\ Lookup(m, "detected_tokens").kind = "number"
                 /\ Lookup(m, "detected_tokens").num < 0
              THEN Delete(m, "detected_tokens") ELSE m
    IN  IF HasKey(m1, "script") /\ Lookup(m1, "script").kind # "string"
        THEN Delete(m1, "script") ELSE m1

(* The bytes of the language code texts the model uses.                    *)
Bytes(s) ==
    CASE s = "tha" -> <<"t", "h", "a">>
      [] s = "eng" -> <<"e", "n", "g">>
      [] s = "Tha" -> <<"T", "h", "a">>
      [] s = "ENG" -> <<"E", "N", "G">>
      [] s = "th" -> <<"t", "h">>
      [] s = "thai" -> <<"t", "h", "a", "i">>
      [] s = "t4i" -> <<"t", "4", "i">>
      [] s = " tha " -> <<" ", "t", "h", "a", " ">>
      [] OTHER -> <<>>

LowerLetters ==
    {"a", "b", "c", "d", "e", "f", "g", "h", "i", "j", "k", "l", "m",
     "n", "o", "p", "q", "r", "s", "t", "u", "v", "w", "x", "y", "z"}

isISO639_3AnyLen(code) == \A i \in 1..Len(Bytes(code)) : Bytes(code)[i] \in LowerLetters

isISO639_3(code) ==
    /\ Len(Bytes(code)) = 3
    /\ \A i \in 1..3 : Bytes(code)[i] \in LowerLetters

ToLower(s) == CASE s = "ENG" -> "eng" [] s = "Tha" -> "tha" [] OTHER -> s

EmptyNLUResponse ==
    [Intents |-> <<>>, Entities |-> <<>>, Languages |-> <<>>,
     Sentiment |-> [Label |-> "", Confidence |-> 0, Metadata |-> {}],
     ImportanceScore |-> 0, PrimaryIntent |-> "", PrimaryLanguage |-> "",
     ParsingErrors |-> <<>>, RecordsCapped |-> FALSE, Truncated |-> FALSE]

addErr(resp, msg) == [resp EXCEPT !.ParsingErrors = Append(@, msg)]

(* Metadata of the optional trailing part at position k.                   *)
MetaOf(resp, parts, k, tag) ==
    IF Len(parts) >= k
    THEN LET pm == parseMeta(parts[k])
         IN  IF pm.err = NoErr THEN [resp |-> resp, m |-> pm.m]
             ELSE [resp |-> addErr(resp, tag \o ": invalid metadata json"), m |-> {}]
    ELSE [resp |-> resp, m |-> {}]

IntentRecord(resp, parts) ==
    IF Len(parts) < 4 THEN addErr(resp, "intent: insufficient parts")
    ELSE LET name == TrimSpace(parts[2])
             conf == parseFloatInRange(parts[3], 0, 1000)
             prio == parseFloatInRange(parts[4], 0, 1000)
             mt == MetaOf(resp, parts, 5, "intent")
         IN  IF ~ValidUTF8(name) \/ name = "" THEN addErr(resp, "intent: invalid name utf8")
             ELSE IF conf.err # NoErr THEN addErr(resp, "intent: invalid confidence")
             ELSE IF prio.err # NoErr THEN addErr(resp, "intent: invalid priority")
             ELSE [mt.resp EXCEPT !.Intents = Append(@,
                      [Name |-> name, Confidence |-> conf.v, Priority |-> prio.v,
                       Metadata |-> mt.m])]

EntityRecord(resp, parts) ==
    IF Len(parts) < 4 THEN addErr(resp, "entity: insufficient parts")
    ELSE LET etype == TrimSpace(parts[2])
             val == TrimSpace(parts[3])
             conf == parseFloatInRange(parts[4], 0, 1000)
             mt == MetaOf(resp, parts, 5, "entity")
         IN  IF ~ValidUTF8(etype) \/ etype = "" THEN addErr(resp, "entity: invalid type utf8")
             ELSE IF ~ValidUTF8(val) \/ val = "" THEN addErr(resp, "entity: invalid value utf8")
             ELSE IF conf.err # NoErr THEN addErr(resp, "entity: invalid confidence")
             ELSE [mt.resp EXCEPT !.Entities = Append(@,
                      [Type |-> etype, Value |-> val, Confidence |-> conf.v,
                       Metadata |-> mt.m,
                       Position |-> normalizeEntityPosition(mt.m)])]

LanguageRecord(resp, parts) ==
    IF Len(parts) < 4 THEN addErr(resp, "language: insufficient parts")
    ELSE LET code == ToLower(TrimSpace(parts[2]))
             conf == parseFloatInRange(parts[3], 0, 1000)
             mt == MetaOf(resp, parts, 5, "language")
         IN  IF ~isISO639_3(code) \/ ~ValidUTF8(code) THEN addErr(resp, "language: invalid code")
             ELSE IF conf.err # NoErr THEN addErr(resp, "language: invalid confidence")
             ELSE [mt.resp EXCEPT !.Languages = Append(@,
                      [Code |-> code, Confidence |-> conf.v,
                       IsPrimary |-> (TrimSpace(parts[4]) = "1"),
                       Metadata |-> sanitizeLanguageMeta(mt.m)])]

SentimentRecordKeepFirst(resp, parts) ==
    IF Len(parts) < 3 THEN addErr(resp, "sentiment: insufficient parts")
    ELSE LET label == TrimSpace(parts[2])
             conf == parseFloatInRange(parts[3], 0, 1000)
             mt == MetaOf(resp, parts, 4, "sentiment")
         IN  IF ~ValidUTF8(label) \/ label = "" THEN addErr(resp, "sentiment: invalid label utf8")
             ELSE IF conf.err # NoErr THEN addErr(resp, "sentiment: invalid confidence")
             ELSE IF resp.Sentiment.Label # "" THEN mt.resp
             ELSE [mt.resp EXCEPT !.Sentiment =
                      [Label |-> label, Confidence |-> conf.v,
                       Metadata |-> sanitizeSentimentMeta(mt.m)]]

SentimentRecord(resp, parts) ==
    IF Len(parts) < 3 THEN addErr(resp, "sentiment: insufficient parts")
    ELSE LET label == TrimSpace(parts[2])
             conf == parseFloatInRange(parts[3], 0, 1000)
             mt == MetaOf(resp, parts, 4, "sentiment")
         IN  IF ~ValidUTF8(label) \/ label = "" THEN addErr(resp, "sentiment: invalid label utf8")
             ELSE IF conf.err # NoErr THEN addErr(resp, "sentiment: invalid confidence")
             ELSE [mt.resp EXCEPT !.Sentiment =
                      [Label |-> label, Confidence |-> conf.v,
                       Metadata |-> sanitizeSentimentMeta(mt.m)]]

(* One turn of the record loop, for a non-empty record.                    *)
ProcessRecord(resp, rec) ==
    LET rt == parseRawTuple(rec)
    IN  IF rt.err # NoErr THEN addErr(resp, "bad_record")
        ELSE CASE rt.Type = "intent" -> IntentRecord(resp, rt.Parts)
               [] rt.Type = "entity" -> EntityRecord(resp, rt.Parts)
               [] rt.Type = "language" -> LanguageRecord(resp, rt.Parts)
               [] rt.Type = "sentiment" -> SentimentRecord(resp, rt.Parts)
               [] OTHER -> addErr(resp, "unknown tuple type")

(* One turn of the record loop: the cap check, the skip of an empty        *)
(* record, the count and the record itself; done is the break.             *)
(* A content is a sequence of elements separated by the record delimiter:  *)
(* records, runs of n whitespace bytes, and occurrences of the completion  *)
(* marker, either standing alone between two delimiters or written right   *)
(* after the element before it ("glued", no delimiter in between).         *)
Pad(n) == [tok |-> "pad", n |-> n, glued |-> FALSE]

EndMarker(glued) == [tok |-> "marker", n |-> endDelimLen, glued |-> glued]

IsRecord(e) == "Wrapped" \in DOMAIN e

IsMarker(e) == ~IsRecord(e) /\ e.tok = "marker"

IsPad(e) == ~IsRecord(e) /\ e.tok = "pad"

RECURSIVE FieldsLen(_)
FieldsLen(fs) ==
    IF Len(fs) = 0 THEN 0
    ELSE IF Len(fs) = 1 THEN Len(fs[1])
    ELSE Len(fs[1]) + tupDelimLen + FieldsLen(Tail(fs))

(* len() of the text of an element.                                        *)
Size(e) ==
    IF IsRecord(e) THEN (IF e.Wrapped THEN 2 ELSE 0) + FieldsLen(e.Fields) ELSE e.n

(* len() of what separates element i from the one before it.               *)
Sep(c, i) == IF i = 1 \/ (IsMarker(c[i]) /\ c[i].glued) THEN 0 ELSE recDelimLen

RECURSIVE SizeRange(_, _, _)
SizeRange(c, lo, hi) ==
    IF lo > hi THEN 0
    ELSE IF lo = hi THEN Sep(c, lo) + Size(c[lo])
    ELSE LET mid == (lo + hi) \div 2
         IN  SizeRange(c, lo, mid) + SizeRange(c, mid + 1, hi)

(* len(content).                                                           *)
ContentLen(c) == SizeRange(c, 1, Len(c))

(* What is left of an element whose text has lost its end, or has the      *)
(* first byte of the next delimiter or marker written after it: a record   *)
(* without its closing parenthesis, shorter whitespace, or text that is    *)
(* neither a record nor the marker.                                        *)
Mangled(e) ==
    IF IsRecord(e) /\ e.Fields # <<>> THEN RawRecord(FALSE, e.Fields)
    ELSE RawRecord(FALSE, <<"#">>)

CutElement(e, off) == IF IsPad(e) THEN Pad(off) ELSE Mangled(e)

(* content[:maxContentLen] of a content longer than maxContentLen; k is    *)
(* the element in which, or in front of which, the cut falls.              *)
Prefix(c) ==
    LET k == CHOOSE i \in 1..Len(c) :
                 /\ SizeRange(c, 1, i) > maxContentLen
                 /\ \A j \in 1..(i - 1) : SizeRange(c, 1, j) <= maxContentLen
        before == SizeRange(c, 1, k - 1)
        begin == before + Sep(c, k)
        glued == IsMarker(c[k]) /\ c[k].glued
    IN  IF maxContentLen = before THEN SubSeq(c, 1, k - 1)
        ELSE IF maxContentLen < begin \/ (glued /\ k > 1)
             THEN (IF IsMarker(c[k - 1]) THEN SubSeq(c, 1, k - 1)
                   ELSE SubSeq(c, 1, k - 2) \o <<Mangled(c[k - 1])>>)
        ELSE IF maxContentLen = begin THEN SubSeq(c, 1, k - 1) \o <<EmptyRecord>>
        ELSE SubSeq(c, 1, k - 1) \o <<CutElement(c[k], maxContentLen - begin)>>

TruncateNever(c) == [content |-> c, truncated |-> FALSE]

(* The content length guard.                                               *)
Truncate(c) ==
    IF ContentLen(c) > maxContentLen
    THEN [content |-> Prefix(c), truncated |-> TRUE]
    ELSE [content |-> c, truncated |-> FALSE]

CutAtMarkerLast(c) ==
    LET idx == {i \in 1..Len(c) : IsMarker(c[i])}
    IN  IF idx = {} THEN c
        ELSE LET i == CHOOSE k \in idx : \A j \in idx : k >= j
             IN  IF c[i].glued /\ i > 1 THEN SubSeq(c, 1, i - 1)
                 ELSE SubSeq(c, 1, i - 1) \o <<EmptyRecord>>

(* content[:idx] for the first occurrence of the completion marker: what   *)
(* is in front of it, ending with an empty record unless the marker was    *)
(* written right after an element.                                         *)
CutAtMarker(c) ==
    LET idx == {i \in 1..Len(c) : IsMarker(c[i])}
    IN  IF idx = {} THEN c
        ELSE LET i == CHOOSE k \in idx : \A j \in idx : k <= j
             IN  IF c[i].glued /\ i > 1 THEN SubSeq(c, 1, i - 1)
                 ELSE SubSeq(c, 1, i - 1) \o <<EmptyRecord>>

SplitRecordsUntrimmed(c) ==
    [i \in 1..Len(c) |-> IF IsPad(c[i]) THEN RawRecord(FALSE, <<" ">>) ELSE c[i]]

(* strings.Split and the TrimSpace of each record.                         *)
SplitRecords(c) == [i \in 1..Len(c) |-> IF IsPad(c[i]) THEN EmptyRecord ELSE c[i]]

LoopStepNoCap(st, rec) ==
    IF rec = EmptyRecord THEN st
    ELSE [st EXCEPT !.resp = ProcessRecord(st.resp, rec), !.processed = @ + 1]

LoopStep(st, rec) ==
    IF st.done THEN st
    ELSE IF st.processed >= maxRecords
    THEN [st EXCEPT !.resp.RecordsCapped = TRUE, !.done = TRUE]
    ELSE IF rec = EmptyRecord \/ IsMarker(rec) THEN st
    ELSE [st EXCEPT !.resp = ProcessRecord(st.resp, rec), !.processed = @ + 1]

(* The turns lo..hi in order, evaluated by halves.                         *)
RECURSIVE LoopRange(_, _, _, _)
LoopRange(st, records, lo, hi) ==
    IF lo > hi THEN st
    ELSE IF lo = hi THEN LoopStep(st, records[lo])
    ELSE LET mid == (lo + hi) \div 2
         IN  CHOOSE out \in { LoopRange(left, records, mid + 1, hi) :
                                left \in {LoopRange(st, records, lo, mid)} } : TRUE

RecordLoop(resp, records, processed) ==
    LoopRange([resp |-> resp, processed |-> processed, done |-> FALSE],
              records, 1, Len(records)).resp

BestIndexLast(items, i, best, bestConf) ==
    IF Len(items) = 0 THEN best
    ELSE CHOOSE k \in 1..Len(items) :
            \A j \in 1..Len(items) :
                /\ items[j].Confidence <= items[k].Confidence
                /\ j > k => items[j].Confidence < items[k].Confidence

(* Index of the first element of maximal confidence (strict > scan).       *)
RECURSIVE BestIndex(_, _, _, _)
BestIndex(items, i, best, bestConf) ==
    IF i > Len(items) THEN best
    ELSE IF items[i].Confidence > bestConf
         THEN BestIndex(items, i + 1, i, items[i].Confidence)
         ELSE BestIndex(items, i + 1, best, bestConf)

FirstPrimaryLast(langs) ==
    LET idx == {i \in 1..Len(langs) : langs[i].IsPrimary}
    IN  IF idx = {} THEN 0 ELSE CHOOSE i \in idx : \A j \in idx : i >= j

FirstPrimary(langs) ==
    LET idx == {i \in 1..Len(langs) : langs[i].IsPrimary}
    IN  IF idx = {} THEN 0 ELSE CHOOSE i \in idx : \A j \in idx : i <= j

FirstNamed(intents, name) ==
    LET idx == {i \in 1..Len(intents) : intents[i].Name = name}
    IN  IF idx = {} THEN 0 ELSE CHOOSE i \in idx : \A j \in idx : i <= j

(* The derived fields; ImportanceScore is in ten-thousandths.              *)
DerivedFields(resp) ==
    LET bi == BestIndex(resp.Intents, 1, 0, -1)
        primaryIntent == IF bi = 0 THEN "" ELSE resp.Intents[bi].Name
        fp == FirstPrimary(resp.Languages)
        bl == BestIndex(resp.Languages, 1, 0, -1)
        primaryLanguage == IF fp # 0 THEN resp.Languages[fp].Code
                           ELSE IF bl = 0 THEN "" ELSE resp.Languages[bl].Code
        fi == FirstNamed(resp.Intents, primaryIntent)
        score == IF Len(resp.Intents) > 0 /\ fi # 0
                 THEN resp.Intents[fi].Confidence * 6 + resp.Intents[fi].Priority * 4
                 ELSE 0
    IN  [resp EXCEPT !.PrimaryIntent = primaryIntent,
                     !.PrimaryLanguage = primaryLanguage,
                     !.ImportanceScore = score]

(* The body of ParseNLUResponse up to its return or up to a panic: the     *)
(* named results at that point.  A fault is a panic before the analysis is *)
(* allocated ("early") or after the record loop ("loop").                  *)
Faults == {"none", "early", "loop"}

Allocated(truncated) == [EmptyNLUResponse EXCEPT !.Truncated = truncated]

ParseBody(content, fault) ==
    IF fault = "early" THEN [resp |-> <<>>, err |-> NoErr]
    ELSE CHOOSE out \in
            UNION { { [resp |-> <<IF fault = "loop"
                                  THEN RecordLoop(Allocated(tr.truncated), records, 0)
                                  ELSE DerivedFields(
                                          RecordLoop(Allocated(tr.truncated), records, 0))>>,
                       err |-> NoErr] :
                         records \in {SplitRecords(CutAtMarker(tr.content))} } :
                    tr \in {Truncate(content)} } : TRUE

(* The deferred function: a recovered panic becomes the internal error and *)
(* a nil analysis.                                                         *)
RecoverKeepResp(panicked, r) ==
    IF panicked THEN [resp |-> r.resp, err |-> "nlu parser panic"] ELSE r

Recover(panicked, r) ==
    IF panicked THEN [resp |-> <<>>, err |-> "nlu parser panic"] ELSE r

ParseNLUResponseOn(content, fault) == Recover(fault # "none", ParseBody(content, fault))

(* ParseNLUResponse returns the analysis as a one-element sequence (a      *)
(* non-nil pointer) and a nil error.                                       *)
ParseNLUResponse(content) == ParseNLUResponseOn(content, "none")

----------------------------------------------------------------------------
(* The conversation repository (repo/conversation.go) over Redis lists.    *)
(* Each call has an outcome chosen by the environment: "ok", "push_fail"   *)
(* (RPUSH fails), "expire_fail" (RPUSH done, EXPIRE fails), "fail".        *)

ConvIDs == {"c1"}

AddOutcomes == {"ok", "push_fail", "expire_fail"}
LoadOutcomes == {"ok", "fail"}

(* json.Marshal writes a string as valid UTF-8: every invalid byte becomes *)
(* the replacement rune U+FFFD.  Over the texts the model uses.            *)
ToValidUTF8(s) == IF s = "<invalid-utf8>" THEN "<U+FFFD>" ELSE s

(* The JSON text of a message, as the fields it carries.                   *)
Marshal(m) ==
    [role |-> ToValidUTF8(m.Role), content |-> ToValidUTF8(m.Content),
     tool_calls |-> [i \in 1..Len(m.ToolCalls) |->
                        [id |-> ToValidUTF8(m.ToolCalls[i].ID),
                         name |-> ToValidUTF8(m.ToolCalls[i].Name)]],
     tool_call_id |-> ToValidUTF8(m.ToolCallID)]

Unmarshal(b) ==
    Msg(b.role, b.content,
        [i \in 1..Len(b.tool_calls) |->
            ToolCall(b.tool_calls[i].id, b.tool_calls[i].name)],
        b.tool_call_id)

(* json.Marshal in AddMessage, then json.Unmarshal in LoadHistory.         *)
Stored(m) == Unmarshal(Marshal(m))

AddMessageSharedKey(sto, id, m, outcome) ==
    IF outcome = "push_fail" THEN [store |-> sto, err |-> "redis operation failed"]
    ELSE LET pushed == [sto EXCEPT !["c1"] = Append(@, Stored(m))]
         IN  IF outcome = "expire_fail"
             THEN [store |-> pushed, err |-> "redis operation failed"]
             ELSE [store |-> pushed, err |-> NoErr]

AddMessage(sto, id, m, outcome) ==
    IF outcome = "push_fail" THEN [store |-> sto, err |-> "redis operation failed"]
    ELSE LET pushed == [sto EXCEPT ![id] = Append(@, Stored(m))]
         IN  IF outcome = "expire_fail"
             THEN [store |-> pushed, err |-> "redis operation failed"]
             ELSE [store |-> pushed, err |-> NoErr]

LoadHistory(sto, id, outcome) ==
    IF outcome = "fail" THEN [Messages |-> <<>>, err |-> "redis operation failed"]
    ELSE [Messages |-> sto[id], err |-> NoErr]

ClearHistory(sto, id, outcome) ==
    IF outcome = "fail" THEN [store |-> sto, err |-> "redis operation failed"]
    ELSE [store |-> [sto EXCEPT ![id] = <<>>], err |-> NoErr]

GetMessageCount(sto, id, outcome) ==
    IF outcome = "fail" THEN [Count |-> 0, err |-> "redis operation failed"]
    ELSE [Count |-> Len(sto[id]), err |-> NoErr]

OpRecord(op, m, outcome) ==
    [op |-> op, Role |-> m.Role, Content |-> m.Content, res |-> outcome]

NoMsg == Msg("", "", <<>>, "")

----------------------------------------------------------------------------
(* The messages manager (conversations/manager.go).  The NLU context text  *)
(* is one opaque string: no node reads it back.                            *)

ProcessNLUMessage(sto, id, query, addOutcome, loadOutcome) ==
    LET a == AddMessage(sto, id, UserMessage(query), addOutcome)
        l == LoadHistory(a.store, id, loadOutcome)
        opsA == <<OpRecord("AddMessage", UserMessage(query), addOutcome)>>
    IN  IF a.err # NoErr
        THEN [store |-> a.store, ops |-> opsA, ctx |-> "", err |-> a.err]
        ELSE IF l.err # NoErr
        THEN [store |-> a.store, ops |-> opsA \o <<OpRecord("LoadHistory", NoMsg, loadOutcome)>>,
              ctx |-> "", err |-> l.err]
        ELSE [store |-> a.store, ops |-> opsA \o <<OpRecord("LoadHistory", NoMsg, loadOutcome)>>,
              ctx |-> "nlu_context", err |-> NoErr]

BuildResponseContextPromptLast(sto, id, systemPrompt, loadOutcome) ==
    LET l == LoadHistory(sto, id, loadOutcome)
    IN  IF l.err # NoErr THEN [messages |-> <<>>, err |-> l.err]
        ELSE [messages |-> l.Messages \o <<SystemMessage(systemPrompt)>>, err |-> NoErr]

BuildResponseContext(sto, id, systemPrompt, loadOutcome) ==
    LET l == LoadHistory(sto, id, loadOutcome)
    IN  IF l.err # NoErr THEN [messages |-> <<>>, err |-> l.err]
        ELSE [messages |-> <<SystemMessage(systemPrompt)>> \o l.Messages, err |-> NoErr]

SaveResponse(sto, id, content, outcome) ==
    AddMessage(sto, id, AssistantMessage(content, <<>>), outcome)

----------------------------------------------------------------------------
(* The AppState and the state handlers (nodes/handlers).                   *)

NewAppState ==
    [ConversationID |-> "", History |-> <<>>, NLUAnalysis |-> <<>>,
     ToolCallCount |-> 0, ToolCallLimitReached |-> FALSE, ToolCallIDSeq |-> 0,
     TotalCostUSD |-> FloatZero]

InputConverterPreHandlerOverwriteID(input, s) ==
    [s EXCEPT !.ConversationID = input.ConversationID,
              !.ToolCallCount = 0,
              !.ToolCallLimitReached = FALSE,
              !.ToolCallIDSeq = 0,
              !.TotalCostUSD = FloatZero]

InputConverterPreHandlerKeepSeq(input, s) ==
    [s EXCEPT !.ConversationID = IF @ = "" THEN input.ConversationID ELSE @,
              !.ToolCallCount = 0,
              !.ToolCallLimitReached = FALSE,
              !.TotalCostUSD = FloatZero]

InputConverterPreHandler(input, s) ==
    [s EXCEPT !.ConversationID = IF @ = "" THEN input.ConversationID ELSE @,
              !.ToolCallCount = 0,
              !.ToolCallLimitReached = FALSE,
              !.ToolCallIDSeq = 0,
              !.TotalCostUSD = FloatZero]

NLUChatModelPostHandler(s, usage, modelName) == AccumulateCost(s, usage, modelName)

(* The parser node body: the analysis, or an error.                        *)
ParserNodeResult(r) ==
    IF r.err # NoErr THEN [out |-> <<>>, err |-> r.err]
    ELSE IF r.resp = <<>> THEN [out |-> <<>>, err |-> "parsing returned nil result"]
    ELSE [out |-> r.resp, err |-> NoErr]

ParserNode(content) == ParserNodeResult(ParseNLUResponse(content))

ParserPostHandlerNoStore(out, s) == s

ParserPostHandler(out, s) == [s EXCEPT !.NLUAnalysis = <<out>>]

HumanHandoffConditionInclusive(nlu) ==
    IF nlu.Sentiment.Label = "negative" /\ nlu.Sentiment.Confidence >= HandoffThreshold
    THEN NodeHumanHandoff
    ELSE NodeResponseAssembler

HumanHandoffCondition(nlu) ==
    IF nlu.Sentiment.Label = "negative" /\ nlu.Sentiment.Confidence > HandoffThreshold
    THEN NodeHumanHandoff
    ELSE NodeResponseAssembler

HumanHandoffNode == SystemMessage(HandoffText)

(* The response assembler body: reads the analysis from the state, then    *)
(* builds the context from the stored history.                             *)
ResponseAssemblerNode(s, sto, loadOutcome) ==
    IF s.NLUAnalysis = <<>>
    THEN [messages |-> <<>>, err |-> "missing NLU analysis in state", loaded |-> FALSE]
    ELSE LET b == BuildResponseContext(sto, s.ConversationID, "response_system_prompt",
                                       loadOutcome)
         IN  [messages |-> b.messages, err |-> b.err, loaded |-> TRUE]

(* Largest index of an assistant message with tool calls, 0 if none.       *)
FirstAssistantWithCalls(h) ==
    LET idx == {i \in 1..Len(h) : h[i].Role = "assistant" /\ Len(h[i].ToolCalls) > 0}
    IN  IF idx = {} THEN 0 ELSE CHOOSE i \in idx : \A j \in idx : i <= j

LastAssistantWithCalls(h) ==
    LET idx == {i \in 1..Len(h) : h[i].Role = "assistant" /\ Len(h[i].ToolCalls) > 0}
    IN  IF idx = {} THEN 0 ELSE CHOOSE i \in idx : \A j \in idx : j <= i

BackfillToolCallID(msgs, h) ==
    IF Len(msgs) > 0 /\ msgs[Len(msgs)].Role = "tool"
       /\ TrimSpace(msgs[Len(msgs)].ToolCallID) = ""
    THEN LET i == LastAssistantWithCalls(h)
         IN  IF i # 0 /\ TrimSpace(h[i].ToolCalls[1].ID) # ""
             THEN [msgs EXCEPT ![Len(msgs)].ToolCallID = h[i].ToolCalls[1].ID]
             ELSE msgs
    ELSE msgs

ResponseChatModelPreHandlerReplace(msgs, s, maxToolCalls) ==
    LET filled == BackfillToolCallID(msgs, s.History)
        s1 == [s EXCEPT !.History = filled]
        cm == checkAndMarkToolLimit(s1, maxToolCalls)
        s2 == IF cm.marked
              THEN [cm.state EXCEPT !.History = Append(@, WrapUpNotice(maxToolCalls))]
              ELSE cm.state
    IN  [state |-> s2, out |-> s2.History]

ResponseChatModelPreHandler(msgs, s, maxToolCalls) ==
    LET filled == BackfillToolCallID(msgs, s.History)
        s1 == [s EXCEPT !.History = @ \o filled]
        cm == checkAndMarkToolLimit(s1, maxToolCalls)
        s2 == IF cm.marked
              THEN [cm.state EXCEPT !.History = Append(@, WrapUpNotice(maxToolCalls))]
              ELSE cm.state
    IN  [state |-> s2, out |-> s2.History]

NormalizeToolCallsNoCount(calls, seq) ==
    [calls |-> [i \in 1..Len(calls) |->
                   IF TrimSpace(calls[i].ID) = ""
                   THEN ToolCall(SynthID(seq + 1), calls[i].Name)
                   ELSE calls[i]],
     seq |-> seq]

(* Tool calls without an identifier get "call_<n>" from the sequence.      *)
RECURSIVE NormalizeToolCalls(_, _)
NormalizeToolCalls(calls, seq) ==
    IF calls = <<>> THEN [calls |-> <<>>, seq |-> seq]
    ELSE IF TrimSpace(Head(calls).ID) = ""
         THEN LET rest == NormalizeToolCalls(Tail(calls), seq + 1)
              IN  [calls |-> <<ToolCall(SynthID(seq + 1), Head(calls).Name)>> \o rest.calls,
                   seq |-> rest.seq]
         ELSE LET rest == NormalizeToolCalls(Tail(calls), seq)
              IN  [calls |-> <<Head(calls)>> \o rest.calls, seq |-> rest.seq]

ShouldSaveBoth(out, s) ==
    /\ out.Role = "assistant"
    /\ (Len(out.ToolCalls) = 0 /\ s.ToolCallLimitReached)
    /\ TrimSpace(out.Content) # ""

ShouldSaveAny(out, s) ==
    /\ out.Role = "assistant"
    /\ TrimSpace(out.Content) # ""

(* The condition under which the post-handler saves the reply.             *)
ShouldSave(out, s) ==
    /\ out.Role = "assistant"
    /\ (Len(out.ToolCalls) = 0 \/ s.ToolCallLimitReached)
    /\ TrimSpace(out.Content) # ""

(* The post-handler up to the save: cost, identifiers, history.  The       *)
(* handler returns a nil error whatever SaveResponse returns.              *)
ResponseChatModelPostHandler(out, usage, s, modelName) ==
    LET s1 == AccumulateCost(s, usage, modelName)
        n == NormalizeToolCalls(out.ToolCalls, s1.ToolCallIDSeq)
        out1 == [out EXCEPT !.ToolCalls = n.calls]
        s2 == [s1 EXCEPT !.ToolCallIDSeq = n.seq, !.History = Append(@, out1)]
    IN  [state |-> s2, out |-> out1, save |-> ShouldSave(out1, s2), err |-> NoErr]

ToolExecutorConditionIgnoreLimit(limitReached, msg) ==
    IF Len(msg.ToolCalls) > 0 THEN NodeToolExecutor ELSE END

ToolExecutorCondition(limitReached, msg) ==
    IF limitReached THEN END
    ELSE IF Len(msg.ToolCalls) > 0 THEN NodeToolExecutor
    ELSE END

ToolExecutorPreHandler(s, maxToolCalls) == incrementToolCallAndCheck(s, maxToolCalls).state

(* fmt's %q (strconv.Quote) over the names the model uses: a Go string     *)
(* literal, in which a control character is written as \x and two hex      *)
(* digits.                                                                 *)
Quote(s) == IF s = "<U+0001>" THEN "\"\\x01\"" ELSE "\"" \o s \o "\""

UnknownToolsHandler(name) ==
    "{\"error\":\"unknown_tool\",\"name\":" \o Quote(name) \o ",\"note\":\"ignored\"}"

(* The tools node runs the calls of the message one after the other; a     *)
(* registered tool may return an error, which ends the node.               *)
RECURSIVE RunTools(_, _)
RunTools(calls, toolOutcome) ==
    IF calls = <<>> THEN [msgs |-> <<>>, ran |-> 0, err |-> NoErr]
    ELSE LET c == Head(calls)
         IN  IF c.Name \in RegisteredTools /\ toolOutcome = "fail"
             THEN [msgs |-> <<>>, ran |-> 1, err |-> "tool failed"]
             ELSE LET rest == RunTools(Tail(calls), toolOutcome)
                      content == IF c.Name \in RegisteredTools THEN "tool_result"
                                 ELSE UnknownToolsHandler(c.Name)
                  IN  [msgs |-> <<ToolMessage(content, c.ID)>> \o rest.msgs,
                       ran |-> 1 + rest.ran, err |-> rest.err]

HasRegistered(calls) == \E i \in 1..Len(calls) : calls[i].Name \in RegisteredTools

----------------------------------------------------------------------------
(* The topology (graph.go: addEdges) and the runner's return.              *)

EdgeFromMiswired(node) ==
    CASE node = NodeInputConverter -> NodeNLUChatModel
      [] node = NodeNLUChatModel -> NodeParser
      [] node = NodeHumanHandoff -> NodeResponseAssembler
      [] node = NodeResponseAssembler -> NodeResponseChatModel
      [] node = NodeToolExecutor -> NodeResponseChatModel

EdgeFrom(node) ==
    CASE node = NodeInputConverter -> NodeNLUChatModel
      [] node = NodeNLUChatModel -> NodeParser
      [] node = NodeHumanHandoff -> END
      [] node = NodeResponseAssembler -> NodeResponseChatModel
      [] node = NodeToolExecutor -> NodeResponseChatModel

InvokeReturnSwallow(out, err) ==
    IF out = <<>> THEN [content |-> "", err |-> NoErr]
    ELSE [content |-> out[1].Content, err |-> NoErr]

(* graphRunner.Invoke: out is nil (<<>>) or the final message.             *)
InvokeReturn(out, err) ==
    IF err # NoErr THEN [content |-> "", err |-> err]
    ELSE IF out = <<>> THEN [content |-> "", err |-> NoErr]
    ELSE [content |-> out[1].Content, err |-> NoErr]

----------------------------------------------------------------------------
(* What the environment may answer.                                        *)

Rec(fields) == RawRecord(TRUE, fields)

Usage(p, c) == <<[PromptTokens |-> p, CompletionTokens |-> c]>>
NoUsage == <<>>

ModelCall(modelName, usage) == [Model |-> modelName, Usage |-> usage]

(* Answers of the NLU model: the raw content and the usage metadata.       *)
NLUResults ==
    { [Content |-> <<Rec(<<"sentiment", "negative", "0.95">>)>>, Usage |-> Usage(100, 50)],
      [Content |-> <<Rec(<<"intent", "purchase_intent", "0.9", "0.8">>),
                     Rec(<<"sentiment", "negative", "0.94">>)>>, Usage |-> NoUsage],
      [Content |-> <<Rec(<<"sentiment", "neutral", "0.5">>), EmptyRecord>>,
       Usage |-> Usage(100, 50)],
      [Content |-> <<RawRecord(FALSE, <<"sentiment", "negative", "0.95">>),
                     Rec(<<"sentiment", "negative", "1.5">>)>>, Usage |-> NoUsage] }

(* Answers of the response model.                                          *)
RespResults ==
    { [Msg |-> AssistantMessage("final answer", <<>>), Usage |-> Usage(200, 100)],
      [Msg |-> AssistantMessage(" ", <<>>), Usage |-> NoUsage],
      [Msg |-> AssistantMessage("",
                  <<ToolCall("", ToolSearchProduct), ToolCall("id_c", ""),
                    ToolCall("id_d", "<U+0001>")>>),
       Usage |-> Usage(200, 100)],
      [Msg |-> AssistantMessage("let me check",
                  <<ToolCall("id_a", ToolGetProductDetails), ToolCall("id_b", "bogus")>>),
       Usage |-> Usage(300, 7)] }

ModelNames ==
    { [NLU |-> "gemini-2.5-flash-lite", Response |-> "gemini-2.5-flash"],
      [NLU |-> "unlisted-model", Response |-> "gemini-2.5-flash"] }

InitHistories == { <<>>, <<UserMessage("hi"), AssistantMessage("hello", <<>>)>> }

Configs ==
    { [ToolMaxCalls |-> n, NLUModelName |-> m.NLU, ResponseModelName |-> m.Response] :
        n \in 0..MaxCfg, m \in ModelNames }

----------------------------------------------------------------------------
(* The runner.  One action is one node execution: pre-handler, body,       *)
(* post-handler and the choice of the successor.                           *)

Init ==
    /\ cfg \in Configs
    /\ in \in [ConversationID : ConvIDs, Query : {"q"}]
    /\ store \in [ConvIDs -> InitHistories]
    /\ store0 = store
    /\ storeOps = <<>>
    /\ state = NewAppState
    /\ pc = NodeInputConverter
    /\ payload = <<>>
    /\ trace = <<>>
    /\ executedCalls = 0
    /\ ret = [content |-> "", err |-> NoErr]
    /\ modelCalls = <<>>
    /\ parked = <<>>

CanRun(node) == pc = node /\ Len(trace) < MaxRunSteps(cfg.ToolMaxCalls)

(* The end of a node execution: the new state and store, the node's output *)
(* or error, and the successor.                                            *)
Finish(node, st, sto, ops, out, err, next, ran) ==
    /\ state' = st
    /\ store' = sto
    /\ storeOps' = storeOps \o ops
    /\ trace' = Append(trace, node)
    /\ executedCalls' = executedCalls + ran
    /\ IF err # NoErr
       THEN /\ pc' = ERR
            /\ payload' = <<>>
            /\ ret' = InvokeReturn(<<>>, err)
       ELSE IF next = END
       THEN /\ pc' = END
            /\ payload' = out
            /\ ret' = InvokeReturn(<<out>>, NoErr)
       ELSE /\ pc' = next
            /\ payload' = out
            /\ ret' = ret
    /\ UNCHANGED <<cfg, in, store0, parked>>

InputConverter ==
    /\ CanRun(NodeInputConverter)
    /\ \E addOutcome \in AddOutcomes, loadOutcome \in LoadOutcomes :
         LET s1 == InputConverterPreHandler(in, state)
             r == ProcessNLUMessage(store, in.ConversationID, in.Query, addOutcome, loadOutcome)
             out == <<SystemMessage("nlu_system_prompt"), UserMessage(r.ctx)>>
         IN  Finish(NodeInputConverter, s1, r.store, r.ops, out, r.err,
                    EdgeFrom(NodeInputConverter), 0)
    /\ UNCHANGED modelCalls

NLUChatModel ==
    /\ CanRun(NodeNLUChatModel)
    /\ \/ \E r \in NLUResults :
            /\ Finish(NodeNLUChatModel,
                      NLUChatModelPostHandler(state, r.Usage, cfg.NLUModelName),
                      store, <<>>, r.Content, NoErr, EdgeFrom(NodeNLUChatModel), 0)
            /\ modelCalls' = Append(modelCalls, ModelCall(cfg.NLUModelName, r.Usage))
       \/ /\ Finish(NodeNLUChatModel, state, store, <<>>, <<>>, "nlu model failed",
                    EdgeFrom(NodeNLUChatModel), 0)
          /\ UNCHANGED modelCalls

Parser ==
    /\ CanRun(NodeParser)
    /\ \E r \in {ParserNode(payload)} :
         IF r.err # NoErr
         THEN Finish(NodeParser, state, store, <<>>, <<>>, r.err, ERR, 0)
         ELSE Finish(NodeParser, ParserPostHandler(r.out[1], state), store, <<>>,
                     r.out[1], NoErr, HumanHandoffCondition(r.out[1]), 0)
    /\ UNCHANGED modelCalls

HumanHandoff ==
    /\ CanRun(NodeHumanHandoff)
    /\ Finish(NodeHumanHandoff, state, store, <<>>, HumanHandoffNode, NoErr,
              EdgeFrom(NodeHumanHandoff), 0)
    /\ UNCHANGED modelCalls

ResponseAssembler ==
    /\ CanRun(NodeResponseAssembler)
    /\ \E loadOutcome \in LoadOutcomes :
         LET r == ResponseAssemblerNode(state, store, loadOutcome)
             ops == IF r.loaded THEN <<OpRecord("LoadHistory", NoMsg, loadOutcome)>> ELSE <<>>
         IN  Finish(NodeResponseAssembler, state, store, ops, r.messages, r.err,
                    EdgeFrom(NodeResponseAssembler), 0)
    /\ UNCHANGED modelCalls

ResponseChatModel ==
    /\ CanRun(NodeResponseChatModel)
    /\ \E pre \in {ResponseChatModelPreHandler(payload, state, cfg.ToolMaxCalls)} :
         \/ \E r \in RespResults :
              \E post \in {ResponseChatModelPostHandler(r.Msg, r.Usage, pre.state,
                                                        cfg.ResponseModelName)} :
                /\ modelCalls' = Append(modelCalls,
                                        ModelCall(cfg.ResponseModelName, r.Usage))
                /\ \E saveOutcome \in AddOutcomes :
                     LET sv == SaveResponse(store, post.state.ConversationID,
                                            post.out.Content, saveOutcome)
                         next == ToolExecutorCondition(post.state.ToolCallLimitReached,
                                                       post.out)
                     IN  IF post.save
                         THEN Finish(NodeResponseChatModel, post.state, sv.store,
                                     <<OpRecord("AddMessage",
                                                AssistantMessage(post.out.Content, <<>>),
                                                saveOutcome)>>,
                                     post.out, post.err, next, 0)
                         ELSE /\ saveOutcome = "ok"
                              /\ Finish(NodeResponseChatModel, post.state, store, <<>>,
                                        post.out, post.err, next, 0)
         \/ /\ Finish(NodeResponseChatModel, pre.state, store, <<>>, <<>>,
                      "response model failed", ERR, 0)
            /\ UNCHANGED modelCalls

ToolExecutor ==
    /\ CanRun(NodeToolExecutor)
    /\ \E toolOutcome \in {"ok", "fail"} :
         LET s1 == ToolExecutorPreHandler(state, cfg.ToolMaxCalls)
             r == RunTools(payload.ToolCalls, toolOutcome)
         IN  /\ toolOutcome = "fail" => HasRegistered(payload.ToolCalls)
             /\ Finish(NodeToolExecutor, s1, store, <<>>, r.msgs, r.err,
                       EdgeFrom(NodeToolExecutor), r.ran)
    /\ UNCHANGED modelCalls

(* The runner refuses to start a step beyond the ceiling.                  *)
ExceedMaxSteps ==
    /\ pc \notin Terminal
    /\ Len(trace) >= MaxRunSteps(cfg.ToolMaxCalls)
    /\ pc' = ERR
    /\ payload' = <<>>
    /\ ret' = InvokeReturn(<<>>, "exceeds max steps")
    /\ UNCHANGED <<cfg, in, store, store0, storeOps, state, trace, executedCalls,
                   modelCalls, parked>>

Next ==
    \/ InputConverter
    \/ NLUChatModel
    \/ Parser
    \/ HumanHandoff
    \/ ResponseAssembler
    \/ ResponseChatModel
    \/ ToolExecutor
    \/ ExceedMaxSteps

Spec == Init /\ [][Next]_vars

----------------------------------------------------------------------------
(* Two invocations of the same compiled graph on different conversations.  *)
(* Each Invoke gets its own state container (GenLocalState) and its own    *)
(* locals; the conversation store is shared.  The variables hold the       *)
(* invocation that is running; parked holds the locals of the other one,   *)
(* and Switch hands the processor over at a step boundary.                 *)
ConcConvIDs == {"c1", "c2"}

Locals ==
    [in |-> in, state |-> state, pc |-> pc, payload |-> payload, trace |-> trace,
     executedCalls |-> executedCalls, ret |-> ret, storeOps |-> storeOps,
     modelCalls |-> modelCalls]

FreshLocals(id) ==
    [in |-> [ConversationID |-> id, Query |-> "q"], state |-> NewAppState,
     pc |-> NodeInputConverter, payload |-> <<>>, trace |-> <<>>,
     executedCalls |-> 0, ret |-> [content |-> "", err |-> NoErr],
     storeOps |-> <<>>, modelCalls |-> <<>>]

Start(l) ==
    /\ in = l.in
    /\ state = l.state
    /\ pc = l.pc
    /\ payload = l.payload
    /\ trace = l.trace
    /\ executedCalls = l.executedCalls
    /\ ret = l.ret
    /\ storeOps = l.storeOps
    /\ modelCalls = l.modelCalls

Resume(l) ==
    /\ in' = l.in
    /\ state' = l.state
    /\ pc' = l.pc
    /\ payload' = l.payload
    /\ trace' = l.trace
    /\ executedCalls' = l.executedCalls
    /\ ret' = l.ret
    /\ storeOps' = l.storeOps
    /\ modelCalls' = l.modelCalls

Switch ==
    /\ parked # <<>>
    /\ parked' = <<Locals>>
    /\ Resume(parked[1])
    /\ UNCHANGED <<cfg, store, store0>>

ConcInit ==
    /\ cfg = [ToolMaxCalls |-> 1, NLUModelName |-> "gemini-2.5-flash-lite",
              ResponseModelName |-> "gemini-2.5-flash"]
    /\ store = [c \in ConcConvIDs |->
                  IF c = "c1" THEN <<>>
                  ELSE <<UserMessage("hi"), AssistantMessage("hello", <<>>)>>]
    /\ store0 = store
    /\ Start(FreshLocals("c1"))
    /\ parked = <<FreshLocals("c2")>>

ConcNext ==
    \/ InputConverter
    \/ NLUChatModel
    \/ Parser
    \/ HumanHandoff
    \/ ResponseAssembler
    \/ ResponseChatModel
    \/ ToolExecutor
    \/ Switch

ConcSpec == ConcInit /\ [][ConcNext]_vars

(* Two invocations on the same conversation, with different queries: the   *)
(* caller did not keep them apart.                                         *)
SameConvInit ==
    /\ cfg = [ToolMaxCalls |-> 1, NLUModelName |-> "gemini-2.5-flash-lite",
              ResponseModelName |-> "gemini-2.5-flash"]
    /\ store \in {sto \in [ConcConvIDs -> InitHistories] : sto["c2"] = <<>>}
    /\ store0 = store
    /\ Start(FreshLocals("c1"))
    /\ parked = <<[FreshLocals("c1") EXCEPT !.in.Query = "q2"]>>

SameConvSpec == SameConvInit /\ [][ConcNext]_vars

----------------------------------------------------------------------------
(* The state handlers as functions of an arbitrary state container: the    *)
(* container given to the first pre-handler holds any values.              *)

(* Histories of an invocation in its tool loop: two tool requests, and a   *)
(* tool request followed by an assistant message without tool calls.       *)
ToolLoopHistories ==
    { <<AssistantMessage("", <<ToolCall("id_a", ToolGetProductDetails),
                               ToolCall("id_b", ToolSearchProduct)>>),
        ToolMessage("tool_result", "id_a"),
        AssistantMessage("", <<ToolCall("call_1", ToolSearchProduct),
                               ToolCall("id_c", ToolGetProductDetails)>>)>>,
      <<UserMessage("old"),
        AssistantMessage("", <<ToolCall("id_a", ToolGetProductDetails)>>),
        AssistantMessage("interim", <<>>)>> }

PriorStates ==
    [ConversationID : {"", "c0"},
     History : {<<>>, <<UserMessage("old")>>} \cup ToolLoopHistories,
     NLUAnalysis : {<<>>, <<EmptyNLUResponse>>},
     ToolCallCount : 0..MaxPrior,
     ToolCallLimitReached : BOOLEAN,
     ToolCallIDSeq : 0..MaxPrior,
     TotalCostUSD : {FloatZero, Rate250}]

(* The messages a node hands to the response model's pre-handler: the      *)
(* assembled prompt, or the results of a tool round.                       *)
HandlerInputs ==
    { <<SystemMessage("context"), UserMessage("q")>>,
      <<ToolMessage("tool_result", "id_a")>>,
      <<ToolMessage("tool_result", "")>>,
      <<ToolMessage("first", ""), ToolMessage("second", " ")>> }

HandlerInit ==
    /\ cfg \in {c \in Configs : c.ToolMaxCalls <= MaxPrior}
    /\ in \in [ConversationID : ConvIDs, Query : {"q"}]
    /\ store = [c \in ConvIDs |-> <<>>]
    /\ store0 = store
    /\ storeOps = <<>>
    /\ state \in PriorStates
    /\ pc \in {"InputConverter.pre", "ResponseChatModel.pre"}
    /\ payload = state
    /\ trace = <<>>
    /\ executedCalls = 0
    /\ ret = [content |-> "", err |-> NoErr]
    /\ modelCalls = <<>>
    /\ parked = <<>>

(* The pre-handler of the first node runs on the container; payload keeps  *)
(* the container as it was.                                                *)
ApplyInputConverterPreHandler ==
    /\ pc = "InputConverter.pre"
    /\ state' = InputConverterPreHandler(in, state)
    /\ pc' = "InputConverter.body"
    /\ UNCHANGED <<cfg, in, store, store0, storeOps, payload, trace, executedCalls, ret,
                   modelCalls, parked>>

(* The pre-handler of the response model runs on the container with the    *)
(* configured budget; trace keeps the messages it was given.               *)
ApplyResponseChatModelPreHandler ==
    /\ pc = "ResponseChatModel.pre"
    /\ \E msgs \in HandlerInputs :
          /\ state' = ResponseChatModelPreHandler(msgs, state, cfg.ToolMaxCalls).state
          /\ trace' = msgs
    /\ pc' = "ResponseChatModel.body"
    /\ UNCHANGED <<cfg, in, store, store0, storeOps, payload, executedCalls, ret,
                   modelCalls, parked>>

HandlerNext ==
    \/ ApplyInputConverterPreHandler
    \/ ApplyResponseChatModelPreHandler

HandlerSpec == HandlerInit /\ [][HandlerNext]_vars

----------------------------------------------------------------------------
(* The conversation repository driven directly: a client that appends,     *)
(* clears, loads and counts on one conversation.  storeOps is the log of   *)
(* the calls and payload the result of the last load or count.             *)
MaxOps == 3

RepoMessages ==
    { UserMessage("hi"), AssistantMessage("hello", <<>>), UserMessage("<invalid-utf8>") }

RepoInit ==
    /\ cfg \in {c \in Configs : c.ToolMaxCalls = 1 /\ c.NLUModelName = "unlisted-model"}
    /\ in \in [ConversationID : ConvIDs, Query : {"q"}]
    /\ store = [c \in ConvIDs |-> <<>>]
    /\ store0 = store
    /\ storeOps = <<>>
    /\ state = NewAppState
    /\ pc = "repo"
    /\ payload = <<>>
    /\ trace = <<>>
    /\ executedCalls = 0
    /\ ret = [content |-> "", err |-> NoErr]
    /\ modelCalls = <<>>
    /\ parked = <<>>

RepoCall(sto, op, m, outcome, result) ==
    /\ pc = "repo"
    /\ Len(storeOps) < MaxOps
    /\ store' = sto
    /\ storeOps' = Append(storeOps, OpRecord(op, m, outcome))
    /\ payload' = result
    /\ UNCHANGED <<cfg, in, store0, state, pc, trace, executedCalls, ret, modelCalls,
                   parked>>

RepoAddMessage ==
    \E m \in RepoMessages, outcome \in AddOutcomes :
        \E r \in {AddMessage(store, in.ConversationID, m, outcome)} :
            RepoCall(r.store, "AddMessage", m, outcome, [err |-> r.err])

RepoClearHistory ==
    \E outcome \in LoadOutcomes :
        \E r \in {ClearHistory(store, in.ConversationID, outcome)} :
            RepoCall(r.store, "ClearHistory", NoMsg, outcome, [err |-> r.err])

RepoLoadHistory ==
    \E outcome \in LoadOutcomes :
        RepoCall(store, "LoadHistory", NoMsg, outcome,
                 LoadHistory(store, in.ConversationID, outcome))

RepoGetMessageCount ==
    \E outcome \in LoadOutcomes :
        RepoCall(store, "GetMessageCount", NoMsg, outcome,
                 GetMessageCount(store, in.ConversationID, outcome))

RepoNext ==
    \/ RepoAddMessage
    \/ RepoClearHistory
    \/ RepoLoadHistory
    \/ RepoGetMessageCount

RepoSpec == RepoInit /\ [][RepoNext]_vars

----------------------------------------------------------------------------
(* The parser node applied to any content: a sequence of at most MaxRecs   *)
(* records of every kind, or a content one record longer than the cap.     *)
MaxRecs == 2

ValidIntentRec == Rec(<<"intent", "purchase_intent", "0.9", "0.8">>)
ValidEntityRec == Rec(<<"entity", "product", "phone", "0.9">>)
ValidLanguageRec == Rec(<<"language", "Tha", "0.9", "1">>)
ValidSentimentRec == Rec(<<"sentiment", "negative", "0.95">>)
BadMetaIntentRec == Rec(<<"intent", "ask_price", "0.5", "0.5", "not json">>)

MalformedRecs ==
    { RawRecord(FALSE, <<"intent", "purchase_intent", "0.9", "0.8">>),
      Rec(<<"entity", "product">>),
      Rec(<<"intent">>),
      Rec(<<"intent", "", "0.9", "0.8">>),
      Rec(<<"entity", "<invalid-utf8>", "phone", "0.9">>),
      Rec(<<"language", "tha", "1.5", "1">>),
      Rec(<<"intent", "purchase_intent", "0.9", "-0.1">>) }

UnknownTypeRec == Rec(<<"mood", "calm", "0.5">>)

RecordKinds ==
    {ValidIntentRec, ValidEntityRec, ValidLanguageRec, ValidSentimentRec,
     BadMetaIntentRec, UnknownTypeRec, EmptyRecord} \cup MalformedRecs

(* Records with numeric fields and metadata at, inside and outside the     *)
(* declared ranges.                                                        *)
SentimentMetaRec(meta) == Rec(<<"sentiment", "negative", "0.95", meta>>)

EntityMetaRec(meta) == Rec(<<"entity", "product", "phone", "0.9", meta>>)

SentimentMetas ==
    { "{\"polarity\":-0.5,\"subjectivity\":0.8}",
      "{\"polarity\":-1.5,\"subjectivity\":1.5}",
      "{\"polarity\":\"high\",\"subjectivity\":-0.1}",
      "{\"polarity\":1e999}" }

PositionMetas ==
    { "{\"entity_position\":[2,5]}",
      "{\"entity_position\":[5,2]}",
      "{\"entity_position\":[-1,5]}",
      "{\"entity_position\":[-0.5,3]}",
      "{\"entity_position\":[1,2,3]}",
      "{\"entity_position\":7}" }

NumberTexts == {"1", "1.5", "-0.1", "NaN", "Inf"}

RangeKinds ==
    {SentimentMetaRec(m) : m \in SentimentMetas}
    \cup {EntityMetaRec(m) : m \in PositionMetas}
    \cup {Rec(<<"intent", "ask_price", t, "0.5">>) : t \in NumberTexts \cup {"0"}}
    \cup {Rec(<<"intent", "ask_price", "0.5", t>>) : t \in {"-0.1", "Inf"}}
    \cup {Rec(<<"entity", "product", "phone", t>>) : t \in {"1.5", "NaN"}}
    \cup {Rec(<<"language", "eng", t, "0">>) : t \in {"-0.1", "Inf"}}
    \cup {Rec(<<"sentiment", "negative", t>>) : t \in {"1.5", "-0.1", "NaN"}}

(* Intents that share a name or a confidence, and languages with and      *)
(* without the primary flag.                                               *)
IntentKinds ==
    {Rec(<<"intent", n, c, p>>) :
        n \in {"purchase_intent", "ask_price"}, c \in {"0", "0.5", "0.9"},
        p \in {"0.5", "0.8"}}

LanguageKinds ==
    {Rec(<<"language", code, c, flag>>) :
        code \in {"tha", "eng"}, c \in {"0.5", "0.9"}, flag \in {"1", "0"}}

(* A record of each type whose metadata is {"note":"a<||>b"}: the text of  *)
(* the record holds one tuple delimiter more than it has fields.           *)
DelimMetaRec(fields) == Rec(fields \o <<"{\"note\":\"a", "b\"}">>)

DelimMetaKinds ==
    { DelimMetaRec(<<"intent", "ask_price", "0.5", "0.5">>),
      DelimMetaRec(<<"entity", "product", "phone", "0.9">>),
      DelimMetaRec(<<"language", "eng", "0.9", "1">>),
      DelimMetaRec(<<"sentiment", "negative", "0.95">>) }

(* Sentiment records, valid and invalid, and an intent record.             *)
ValidSentimentKinds ==
    { ValidSentimentRec,
      Rec(<<"sentiment", "negative", "0.94">>),
      Rec(<<"sentiment", " positive ", "0.8">>),
      Rec(<<"sentiment", "neutral", "0.5", "{\"k\":1}">>),
      Rec(<<"sentiment", "positive", "0.9", "not json">>) }

InvalidSentimentKinds ==
    { Rec(<<"sentiment", "negative", "1.5">>),
      Rec(<<"sentiment", "negative", "NaN">>),
      Rec(<<"sentiment", " ", "0.9">>),
      Rec(<<"sentiment", "<invalid-utf8>", "0.95">>),
      Rec(<<"sentiment", "negative">>),
      RawRecord(FALSE, <<"sentiment", "negative", "0.95">>) }

SentimentKinds == ValidSentimentKinds \cup InvalidSentimentKinds \cup {ValidIntentRec}

Vocabularies ==
    {RecordKinds, RangeKinds, IntentKinds, LanguageKinds, DelimMetaKinds, SentimentKinds}

ShortContents == UNION {[1..n -> V] : n \in 0..MaxRecs, V \in Vocabularies}

(* Contents with the completion marker: at most one record in front of it, *)
(* records and further markers after it.                                   *)
PlainKinds == {ValidIntentRec, ValidEntityRec, ValidLanguageRec, EmptyRecord}

MarkerContents ==
    { x \o <<EndMarker(g)>> \o y :
        x \in UNION {[1..n -> PlainKinds] : n \in 0..1},
        g \in BOOLEAN,
        y \in UNION {[1..n -> PlainKinds \cup {EndMarker(FALSE)}] : n \in 0..MaxRecs} }

(* Contents around maxContentLen bytes: a record, whitespace, and two more *)
(* elements, with the cap falling at every place from inside the           *)
(* whitespace to beyond the end of the content.                            *)
SizedContents ==
    { <<ValidSentimentRec, Pad(maxContentLen - d), second, third>> :
        d \in 0..(Size(ValidSentimentRec) + Size(ValidIntentRec)
                    + Size(ValidLanguageRec) + 4 * recDelimLen),
        second \in {ValidIntentRec, EndMarker(FALSE), EndMarker(TRUE)},
        third \in {ValidEntityRec, ValidLanguageRec} }

(* Contents of record delimiters and whitespace only, short and long.      *)
BlankContents ==
    UNION {[1..n -> {EmptyRecord, Pad(1), Pad(maxContentLen)}] : n \in 0..MaxRecs}

(* One language record with every code, confidence and flag text, and     *)
(* language records without a flag field.                                  *)
CodeTexts == {"tha", "Tha", "ENG", " tha ", "th", "thai", "t4i", ""}

FlagTexts == {"1", " 1 ", "0", "true", ""}

LanguageContents ==
    {<<Rec(<<"language", code, c, flag>>)>> :
        code \in CodeTexts, c \in {"0.9", "1.5", "NaN"}, flag \in FlagTexts}
    \cup {<<Rec(<<"language", code, "0.9">>)>> : code \in CodeTexts}

LongContents ==
    { [i \in 1..(maxRecords + 1) |->
          IF i <= maxRecords THEN (IF i = 2 THEN UnknownTypeRec ELSE ValidEntityRec)
          ELSE last] : last \in {ValidIntentRec, UnknownTypeRec, EmptyRecord} }

ParserInit ==
    /\ cfg \in {c \in Configs : c.ToolMaxCalls = 1 /\ c.NLUModelName = "unlisted-model"}
    /\ in \in [ConversationID : ConvIDs, Query : {"q"}]
    /\ store = [c \in ConvIDs |-> <<>>]
    /\ store0 = store
    /\ storeOps = <<>>
    /\ state = NewAppState
    /\ pc = "ParserNode.call"
    /\ payload \in [Content : ShortContents, Fault : Faults]
                   \cup [Content : LongContents \cup MarkerContents \cup SizedContents
                                    \cup BlankContents \cup LanguageContents,
                         Fault : {"none"}]
    /\ trace = <<>>
    /\ executedCalls = 0
    /\ ret = [content |-> "", err |-> NoErr]
    /\ modelCalls = <<>>
    /\ parked = <<>>

(* ret holds what ParseNLUResponse returned and what the node returned.    *)
ApplyParserNode ==
    /\ pc = "ParserNode.call"
    /\ \E parsed \in {ParseNLUResponseOn(payload.Content, payload.Fault)} :
          ret' = [parsed |-> parsed, node |-> ParserNodeResult(parsed)]
    /\ pc' = "ParserNode.return"
    /\ UNCHANGED <<cfg, in, store, store0, storeOps, state, payload, trace,
                   executedCalls, modelCalls, parked>>

ParserNext == ApplyParserNode

ParserSpec == ParserInit /\ [][ParserNext]_vars

----------------------------------------------------------------------------
(* Observations used by the properties.                                    *)

LastNode == IF trace = <<>> THEN "" ELSE trace[Len(trace)]

Executions(node) == Cardinality({i \in 1..Len(trace) : trace[i] = node})

ToolSteps == Executions(NodeToolExecutor)

NoticeCount ==
    Cardinality({i \in 1..Len(state.History) : IsWrapUp(state.History[i])})

Conv == in.ConversationID

IsPrefix(a, b) == Len(a) <= Len(b) /\ SubSeq(b, 1, Len(a)) = a

(* The messages the store gained: the effective AddMessage calls.          *)
RECURSIVE Appended(_)
Appended(ops) ==
    IF ops = <<>> THEN <<>>
    ELSE LET o == Head(ops)
         IN  IF o.op = "AddMessage" /\ o.res # "push_fail"
             THEN <<Msg(o.Role, o.Content, <<>>, "")>> \o Appended(Tail(ops))
             ELSE Appended(Tail(ops))

FailedOps == {i \in 1..Len(storeOps) : storeOps[i].res # "ok"}

----------------------------------------------------------------------------
(* C1 (as amended): with max the normalized budget (ToolMaxCalls when it   *)
(* is positive, otherwise the default 10), the tool-execution step never   *)
(* runs more than max times; the history holds no wrap-up notice before a  *)
(* response-generation step has run after max tool-execution steps and     *)
(* exactly one from then on, with toolCallLimitReached set; and that       *)
(* response-generation step is followed by termination, not by tools.      *)
C1_BudgetCutoff ==
    LET max == normalizeMaxToolCalls(cfg.ToolMaxCalls)
        cut == LastNode = NodeResponseChatModel /\ ToolSteps = max
    IN  /\ ToolSteps <= max
        /\ NoticeCount = IF cut THEN 1 ELSE 0
        /\ cut => state.ToolCallLimitReached /\ pc \in Terminal

(* C1 witness: termination after the cutoff with tool calls still asked.   *)
C1_Witness ==
    /\ pc = END
    /\ LastNode = NodeResponseChatModel
    /\ ToolSteps = cfg.ToolMaxCalls
    /\ NoticeCount = 1
    /\ Len(payload.ToolCalls) > 0

(* C1 as stated: the same with max the configured ToolMaxCalls itself.     *)
C1_Original ==
    LET max == cfg.ToolMaxCalls
        cut == LastNode = NodeResponseChatModel /\ ToolSteps = max
    IN  /\ ToolSteps <= max
        /\ NoticeCount = IF cut THEN 1 ELSE 0
        /\ cut => state.ToolCallLimitReached /\ pc \in Terminal

(* C2: after a response-generation step that returned no error, the        *)
(* successor is END when toolCallLimitReached is set, whatever the output  *)
(* carries; otherwise the tool-execution step when the output has one or   *)
(* more tool calls and END when it has none.                               *)
C2_ToolBranch ==
    (LastNode = NodeResponseChatModel /\ ret.err = NoErr) =>
        pc = IF state.ToolCallLimitReached THEN END
             ELSE IF Len(payload.ToolCalls) >= 1 THEN NodeToolExecutor
             ELSE END

(* C2 witness: END chosen although the output carries tool calls.          *)
C2_Witness ==
    /\ LastNode = NodeResponseChatModel
    /\ pc = END
    /\ state.ToolCallLimitReached
    /\ Len(payload.ToolCalls) > 0

(* C3: after the parser step the successor is human-handoff exactly when   *)
(* the sentiment label is "negative" and the confidence is above 0.94; in  *)
(* every other case it is response assembly.                               *)
C3_HandoffBranch ==
    (LastNode = NodeParser /\ pc # ERR) =>
        /\ pc \in {NodeHumanHandoff, NodeResponseAssembler}
        /\ pc = NodeHumanHandoff <=>
              (payload.Sentiment.Label = "negative" /\ payload.Sentiment.Confidence > 940)

(* C3 witness: negative with confidence exactly 0.94 goes to assembly.     *)
C3_Witness ==
    /\ LastNode = NodeParser
    /\ pc = NodeResponseAssembler
    /\ payload.Sentiment.Label = "negative"
    /\ payload.Sentiment.Confidence = 940

HandoffCase ==
    /\ state.NLUAnalysis # <<>>
    /\ state.NLUAnalysis[1].Sentiment.Label = "negative"
    /\ state.NLUAnalysis[1].Sentiment.Confidence > 940

HandoffPath ==
    <<NodeInputConverter, NodeNLUChatModel, NodeParser, NodeHumanHandoff>>

(* C4: once the parsed sentiment is negative above 0.94, the steps run are *)
(* input-conversion, NLU model, parser, human-handoff and then END; no     *)
(* other step runs and the invocation returns the handoff message.         *)
C4_HandoffPath ==
    HandoffCase =>
        /\ IsPrefix(trace, HandoffPath)
        /\ pc \in {NodeHumanHandoff, END}
        /\ pc = END => /\ trace = HandoffPath
                       /\ ret = [content |-> HandoffText, err |-> NoErr]

(* C4 witness: a finished handoff invocation.                              *)
C4_Witness == HandoffCase /\ pc = END /\ ret.content = HandoffText

FinalReply ==
    /\ pc = END
    /\ Executions(NodeResponseAssembler) = 1
    /\ Len(payload.ToolCalls) = 0

StepCeiling ==
    LET b == 10 + 2 * cfg.ToolMaxCalls
    IN  IF b > 20 THEN b ELSE 20

(* C6: the number of step executions never exceeds max(20, 10 + 2 x        *)
(* ToolMaxCalls); every step of the runner either executes one more step   *)
(* or ends the invocation; an unfinished invocation is at a node of the    *)
(* graph, and at the ceiling the only step left is the step-ceiling abort. *)
(* So every invocation ends, with a result or an error.                    *)
C6_StepCeiling ==
    /\ [](Len(trace) <= StepCeiling)
    /\ [][Len(trace') = Len(trace) + 1 \/ pc' \in Terminal]_vars
    /\ [](pc \notin Terminal => pc \in GraphNodes)
    /\ []((pc \notin Terminal /\ Len(trace) = StepCeiling) =>
            /\ ENABLED ExceedMaxSteps
            /\ ~ENABLED ToolExecutor
            /\ ~ENABLED HumanHandoff)
    /\ [][(pc \notin Terminal /\ Len(trace) = StepCeiling) =>
            (pc' = ERR /\ ret'.err = "exceeds max steps")]_vars

(* C6 witness: an invocation aborted at the ceiling.                       *)
C6_Witness ==
    /\ pc = ERR
    /\ ret.err = "exceeds max steps"
    /\ Len(trace) = StepCeiling

(* C7: the individual tool calls executed in one invocation never exceed   *)
(* the maximum (the normalized budget).                                    *)
C7_CallsWithinBudget ==
    executedCalls <= normalizeMaxToolCalls(cfg.ToolMaxCalls)

(* C8: after the first pre-handler, before the body of the first step,     *)
(* toolCallCount = 0, toolCallLimitReached = false, toolCallIDSequence = 0 *)
(* and totalCostUSD = 0, whatever the container held.                      *)
C8_PerTurnReset ==
    pc = "InputConverter.body" =>
        /\ state.ToolCallCount = 0
        /\ state.ToolCallLimitReached = FALSE
        /\ state.ToolCallIDSeq = 0
        /\ state.TotalCostUSD = FloatZero

(* C8 witness: the reset applied to a container holding non-zero values.   *)
C8_Witness ==
    /\ pc = "InputConverter.body"
    /\ payload.ToolCallCount > 0
    /\ payload.ToolCallLimitReached
    /\ payload.ToolCallIDSeq > 0
    /\ payload.TotalCostUSD # FloatZero

(* C9: when a step returns an error the invocation returns an error and    *)
(* an empty result, nothing runs afterwards, the store keeps every append  *)
(* made before (no rollback), the failed call is the last repository call, *)
(* and no step outside the tool loop runs twice (no retry).                *)
C9_AbortOnError ==
    /\ [](pc = ERR => ret.err # NoErr /\ ret.content = "")
    /\ [](pc # ERR => ret.err = NoErr)
    /\ [][pc = ERR => UNCHANGED vars]_vars
    /\ [](store[Conv] = store0[Conv] \o Appended(storeOps))
    /\ [](\A i \in FailedOps :
            (storeOps[i].op = "LoadHistory" \/ storeOps[i].Role = "user")
                => pc = ERR /\ i = Len(storeOps))
    /\ [](\A n \in {NodeInputConverter, NodeNLUChatModel, NodeParser,
                    NodeHumanHandoff, NodeResponseAssembler} : Executions(n) <= 1)

(* C9 witness: the history load failed after the user message was stored.  *)
C9_Witness ==
    /\ pc = ERR
    /\ trace = <<NodeInputConverter>>
    /\ ret.err = "redis operation failed"
    /\ store[Conv] = store0[Conv] \o <<UserMessage(in.Query)>>

(* C10: a failure of any conversation-store operation during an invocation *)
(* aborts the invocation and is returned to the caller as an error.        *)
C10_StoreFailureAborts ==
    FailedOps # {} => pc = ERR /\ ret.err # NoErr

(* C11: the inbound user message is appended before any model call, and    *)
(* the answer of every model call (the NLU call and each response-model    *)
(* call) is the last message of the history when the call's step has       *)
(* returned, before the next step runs.                                    *)
C11_HistoryAppendOrder ==
    /\ Executions(NodeNLUChatModel) > 0 =>
          /\ Len(storeOps) > 0
          /\ storeOps[1].op = "AddMessage" /\ storeOps[1].Role = "user"
          /\ IsPrefix(store0[Conv] \o <<UserMessage(in.Query)>>, store[Conv])
    /\ (LastNode = NodeNLUChatModel /\ pc = NodeParser) =>
          /\ Len(state.History) > 0
          /\ state.History[Len(state.History)].Role = "assistant"
    /\ (LastNode = NodeResponseChatModel /\ pc \in {END, NodeToolExecutor}) =>
          /\ Len(state.History) > 0
          /\ state.History[Len(state.History)] = payload

(* C12: whenever the response-assembly step is about to read the state,    *)
(* nluAnalysis holds the analysis the parser of this invocation returned,  *)
(* and no invocation ends with the missing-analysis error.                 *)
C12_AnalysisSet ==
    /\ pc = NodeResponseAssembler =>
          /\ LastNode = NodeParser
          /\ state.NLUAnalysis = <<payload>>
    /\ ret.err # "missing NLU analysis in state"

(* C12 witness: the response-assembly step has read the analysis and built *)
(* the context.                                                            *)
C12_Witness ==
    /\ LastNode = NodeResponseAssembler
    /\ pc = NodeResponseChatModel
    /\ state.NLUAnalysis # <<>>

(* The charge of one model call, as the claim gives it: nothing without    *)
(* usage metadata, otherwise inputRate * promptTokens / 1e6 +              *)
(* outputRate * completionTokens / 1e6 at the rates of the call's model.   *)
ChargeOf(c) ==
    IF c.Usage = <<>> THEN FloatZero
    ELSE LET p == ResolvePricing(c.Model)
         IN  FloatAdd(FloatDiv(FloatMul(p.InputPerM, c.Usage[1].PromptTokens), 1000000),
                      FloatDiv(FloatMul(p.OutputPerM, c.Usage[1].CompletionTokens), 1000000))

(* The charge of every call the invocation can make, computed once.        *)
CallKinds ==
    { ModelCall(m, u) :
        m \in UNION {{n.NLU, n.Response} : n \in ModelNames},
        u \in {r.Usage : r \in NLUResults} \cup {r.Usage : r \in RespResults} }

ChargeTable == [c \in CallKinds |-> ChargeOf(c)]

Charges(calls) == [i \in 1..Len(calls) |-> ChargeTable[calls[i]]]

(* The charges added one after the other, in the given order.              *)
RECURSIVE SumFloats(_, _)
SumFloats(total, xs) ==
    IF xs = <<>> THEN total ELSE SumFloats(FloatAdd(total, Head(xs)), Tail(xs))

SwapAt(xs, i, j) ==
    [k \in 1..Len(xs) |-> IF k = i THEN xs[j] ELSE IF k = j THEN xs[i] ELSE xs[k]]

OrderIndependent(xs) ==
    LET sum == SumFloats(FloatZero, xs)
    IN  \A i \in 1..Len(xs) : \A j \in (i + 1)..Len(xs) :
            xs[i] # xs[j] => SumFloats(FloatZero, SwapAt(xs, i, j)) = sum

Charged(xs) == {i \in 1..Len(xs) : xs[i] # FloatZero}

(* C13 as stated: totalCostUSD is the sum of the charges of the model      *)
(* calls made so far, and that sum is the same in whatever order the calls *)
(* are taken.                                                              *)
C13_Original ==
    \A xs \in {Charges(modelCalls)} :
        /\ state.TotalCostUSD = SumFloats(FloatZero, xs)
        /\ OrderIndependent(xs)

(* C13 (as amended): every model call adds its float64 charge to          *)
(* totalCostUSD and nothing else changes it, so that at the end the total  *)
(* is the float64 sum of the charges added in call order; the total never  *)
(* decreases during the invocation; and when at most two calls carry usage *)
(* metadata the final total is the same in either order.                   *)
UsageCalls == {i \in 1..Len(modelCalls) : modelCalls[i].Usage # <<>>}

C13_CostAdditive ==
    /\ [][state'.TotalCostUSD =
            IF modelCalls' # modelCalls
            THEN FloatAdd(state.TotalCostUSD,
                          ChargeTable[modelCalls'[Len(modelCalls')]])
            ELSE state.TotalCostUSD]_vars
    /\ [](pc = END =>
            \A xs \in {Charges(modelCalls)} :
                /\ state.TotalCostUSD = SumFloats(FloatZero, xs)
                /\ Cardinality(UsageCalls) <= 2 => OrderIndependent(xs))
    /\ [][FloatLE(state.TotalCostUSD, state'.TotalCostUSD)]_vars

(* C13 witness: an invocation that ended after three charged model calls.  *)
C13_Witness ==
    /\ pc = END
    /\ Len(modelCalls) = 3
    /\ Cardinality(Charged(Charges(modelCalls))) = 3
    /\ state.TotalCostUSD = SumFloats(FloatZero, Charges(modelCalls))

(* C14: cost accumulation never fails and is a no-op when there is        *)
(* nothing to charge: a model call without usage metadata leaves           *)
(* totalCostUSD unchanged, a model name absent from the pricing table      *)
(* resolves to the zero-rate pair and adds zero, and in both cases the     *)
(* step returns no error and the invocation goes on to the successor.      *)
ZeroRates == [InputPerM |-> FloatZero, OutputPerM |-> FloatZero]

NothingToCharge(c) == c.Usage = <<>> \/ c.Model \notin DOMAIN defaultPricing

C14_NothingToCharge ==
    [][modelCalls' # modelCalls =>
         \A c \in {modelCalls'[Len(modelCalls')]} :
            /\ c.Model \notin DOMAIN defaultPricing =>
                  /\ ResolvePricing(c.Model) = ZeroRates
                  /\ ComputeCost(c.Usage, ResolvePricing(c.Model)) = FloatZero
            /\ NothingToCharge(c) =>
                  /\ state'.TotalCostUSD = state.TotalCostUSD
                  /\ pc' # ERR
                  /\ ret'.err = NoErr
                  /\ pc = NodeNLUChatModel => pc' = NodeParser
                  /\ pc = NodeResponseChatModel =>
                        pc' \in {END, NodeToolExecutor}]_vars

(* C14 witness: an invocation that ended with a reply after an NLU call    *)
(* with usage on an unlisted model, a charged response call and a response *)
(* call without usage; the total is the charge of the one listed call.     *)
C14_Witness ==
    /\ pc = END /\ ret.err = NoErr
    /\ Len(modelCalls) = 3
    /\ modelCalls[1].Model \notin DOMAIN defaultPricing
    /\ modelCalls[1].Usage # <<>>
    /\ modelCalls[2].Usage # <<>>
    /\ modelCalls[3].Usage = <<>>
    /\ state.TotalCostUSD = ChargeTable[modelCalls[2]]
    /\ state.TotalCostUSD # FloatZero

(* C16: two invocations on different conversations, interleaved at any    *)
(* step boundary, are independent: a step of one leaves the other's state  *)
(* container, counters, history, cost total and store entry untouched, and *)
(* each invocation's counters, cost total and store entry are those of its *)
(* own steps alone.                                                        *)
OwnSteps(l) ==
    /\ l.state.ToolCallCount =
          Cardinality({i \in 1..Len(l.trace) : l.trace[i] = NodeToolExecutor})
    /\ l.trace # <<>> /\ l.pc # ERR => l.state.ConversationID = l.in.ConversationID
    /\ store[l.in.ConversationID] =
          store0[l.in.ConversationID] \o Appended(l.storeOps)
    /\ l.pc = END =>
          l.state.TotalCostUSD = SumFloats(FloatZero, Charges(l.modelCalls))

C16_Independent ==
    /\ [][\/ /\ parked' = parked
              /\ \A c \in DOMAIN store : c # in.ConversationID => store'[c] = store[c]
              /\ in' = in
           \/ /\ parked' = <<Locals>>
              /\ Locals' = parked[1]
              /\ store' = store]_vars
    /\ [](parked # <<>> =>
            /\ parked[1].in.ConversationID # in.ConversationID
            /\ OwnSteps(Locals)
            /\ OwnSteps(parked[1]))

(* C16 witness: both invocations ended with a reply, each having run a     *)
(* tool round, and each conversation gained its own two messages.          *)
C16_Witness ==
    /\ parked # <<>>
    /\ pc = END /\ parked[1].pc = END
    /\ state.ToolCallCount = 1 /\ parked[1].state.ToolCallCount = 1
    /\ Len(store["c1"]) = Len(store0["c1"]) + 2
    /\ Len(store["c2"]) = Len(store0["c2"]) + 2
    /\ state.TotalCostUSD # FloatZero

(* C17: after any sequence of AddMessage and ClearHistory calls on a       *)
(* conversation, LoadHistory returns exactly the messages appended since   *)
(* the last clear, in append order, and no error; GetMessageCount returns  *)
(* the length of that sequence; both give the empty sequence for a         *)
(* conversation never written or cleared.                                  *)
RECURSIVE SinceLastClear(_)
SinceLastClear(ops) ==
    IF ops = <<>> THEN <<>>
    ELSE LET o == ops[Len(ops)]
             before == SinceLastClear(SubSeq(ops, 1, Len(ops) - 1))
         IN  IF o.op = "ClearHistory" /\ o.res = "ok" THEN <<>>
             ELSE IF o.op = "AddMessage" /\ o.res # "push_fail"
             THEN Append(before, Msg(o.Role, o.Content, <<>>, ""))
             ELSE before

C17_StoreContract ==
    storeOps # <<>> =>
        LET o == storeOps[Len(storeOps)]
        IN  /\ (o.op = "LoadHistory" /\ o.res = "ok") =>
                  /\ payload.err = NoErr
                  /\ payload.Messages = SinceLastClear(storeOps)
            /\ (o.op = "GetMessageCount" /\ o.res = "ok") =>
                  /\ payload.err = NoErr
                  /\ payload.Count = Len(SinceLastClear(storeOps))

(* C18: an unknown tool never fails the invocation: when the message of    *)
(* the response model names a tool that is not registered (the empty name  *)
(* included), the tool-execution step returns no error on its account, the *)
(* result for that call is a tool message whose content is a JSON object   *)
(* with error = unknown_tool and the name, and the response-generation     *)
(* step runs next.                                                         *)
JSONString(s) == IF s = "<U+0001>" THEN "\"\\u0001\"" ELSE "\"" \o s \o "\""

UnknownToolJSON(name) ==
    "{\"error\":\"unknown_tool\",\"name\":" \o JSONString(name) \o ",\"note\":\"ignored\"}"

RequestedNames ==
    UNION {{r.Msg.ToolCalls[i].Name : i \in 1..Len(r.Msg.ToolCalls)} : r \in RespResults}

IsUnknownToolJSON(text) == \E n \in RequestedNames : text = UnknownToolJSON(n)

C18_UnknownTool ==
    [][(pc = NodeToolExecutor /\ Len(trace') = Len(trace) + 1) =>
         \A calls \in {payload.ToolCalls} :
            /\ pc' = ERR => HasRegistered(calls)
            /\ pc' # ERR =>
                  /\ pc' = NodeResponseChatModel
                  /\ Len(payload') = Len(calls)
                  /\ \A i \in 1..Len(calls) :
                        calls[i].Name \notin RegisteredTools =>
                            /\ payload'[i].Role = "tool"
                            /\ payload'[i].ToolCallID = calls[i].ID
                            /\ IsUnknownToolJSON(payload'[i].Content)]_vars

(* C19: ParseNLUResponse returns either an analysis and a nil error, or a  *)
(* nil analysis and the internal error, never both and never neither; a    *)
(* fault inside the parser is returned as that error; and the parser node  *)
(* returns an error, not an analysis, when the analysis is nil.            *)
C19_ParserOutcome ==
    pc = "ParserNode.return" =>
        /\ \/ ret.parsed.resp # <<>> /\ ret.parsed.err = NoErr
           \/ ret.parsed.resp = <<>> /\ ret.parsed.err = "nlu parser panic"
        /\ payload.Fault # "none" <=> ret.parsed.resp = <<>>
        /\ ret.parsed.resp = <<>> => ret.node.err # NoErr /\ ret.node.out = <<>>
        /\ ret.parsed.resp # <<>> => ret.node.err = NoErr /\ ret.node.out = ret.parsed.resp

(* C19 witness: a fault after the record loop had filled the analysis; the *)
(* parser returned nil and the internal error, and so did the node.        *)
C19_Witness ==
    /\ pc = "ParserNode.return"
    /\ payload.Fault = "loop"
    /\ payload.Content = <<ValidIntentRec, ValidSentimentRec>>
    /\ ret.parsed = [resp |-> <<>>, err |-> "nlu parser panic"]
    /\ ret.node = [out |-> <<>>, err |-> "nlu parser panic"]

(* What the record kinds are expected to yield, stated record by record.   *)
ValidIntentRecs == {ValidIntentRec, BadMetaIntentRec}

ItemOf(rec) ==
    CASE rec = ValidIntentRec ->
            [Name |-> "purchase_intent", Confidence |-> 900, Priority |-> 800,
             Metadata |-> {}]
      [] rec = BadMetaIntentRec ->
            [Name |-> "ask_price", Confidence |-> 500, Priority |-> 500, Metadata |-> {}]
      [] rec = ValidEntityRec ->
            [Type |-> "product", Value |-> "phone", Confidence |-> 900, Metadata |-> {},
             Position |-> <<>>]
      [] rec = ValidLanguageRec ->
            [Code |-> "tha", Confidence |-> 900, IsPrimary |-> TRUE, Metadata |-> {}]

ItemsOf(recs, kinds) ==
    LET IsKind(r) == r \in kinds
        sel == SelectSeq(recs, IsKind)
    IN  [i \in 1..Len(sel) |-> ItemOf(sel[i])]

Rejected == MalformedRecs \cup {UnknownTypeRec}

CountOf(recs, kinds) == Cardinality({i \in 1..Len(recs) : recs[i] \in kinds})

WithoutRejected(recs) ==
    LET Kept(r) == r \notin Rejected
    IN  SelectSeq(recs, Kept)

(* The records the loop reaches: those before the record at which the      *)
(* count of processed records has reached maxRecords.                      *)
Considered(recs) ==
    LET nonEmpty == {i \in 1..Len(recs) : recs[i] # EmptyRecord}
        reached == {i \in 1..Len(recs) :
                       Cardinality({j \in nonEmpty : j < i}) < maxRecords}
    IN  SubSeq(recs, 1, Cardinality(reached))

GracefulOn(recs, parsed) ==
    /\ parsed.err = NoErr
    /\ parsed.resp # <<>>
    /\ \A r \in {parsed.resp[1]}, clean \in {ParseNLUResponse(WithoutRejected(recs)).resp[1]} :
          /\ r.Intents = ItemsOf(recs, ValidIntentRecs)
          /\ r.Entities = ItemsOf(recs, {ValidEntityRec})
          /\ r.Languages = ItemsOf(recs, {ValidLanguageRec})
          /\ Len(r.ParsingErrors) = CountOf(recs, Rejected \cup {BadMetaIntentRec})
          /\ [r EXCEPT !.ParsingErrors = <<>>] =
                [clean EXCEPT !.ParsingErrors = <<>>]
          /\ Len(clean.ParsingErrors) = CountOf(recs, {BadMetaIntentRec})

----------------------------------------------------------------------------
(* The numbers of a returned analysis.                                     *)
InUnit(v) == v >= 0 /\ v <= 1000

NumberIn(m, key, min, max) ==
    HasKey(m, key) =>
        \A v \in {Lookup(m, key)} : v.kind = "number" /\ v.num >= min /\ v.num <= max

RangesHold(r) ==
    /\ \A i \in 1..Len(r.Intents) :
          InUnit(r.Intents[i].Confidence) /\ InUnit(r.Intents[i].Priority)
    /\ \A i \in 1..Len(r.Entities) :
          /\ InUnit(r.Entities[i].Confidence)
          /\ r.Entities[i].Position # <<>> =>
                /\ Len(r.Entities[i].Position) = 2
                /\ 0 <= r.Entities[i].Position[1]
                /\ r.Entities[i].Position[1] <= r.Entities[i].Position[2]
    /\ \A i \in 1..Len(r.Languages) : InUnit(r.Languages[i].Confidence)
    /\ InUnit(r.Sentiment.Confidence)
    /\ NumberIn(r.Sentiment.Metadata, "polarity", -1000, 1000)
    /\ NumberIn(r.Sentiment.Metadata, "subjectivity", 0, 1000)

(* The span an entity's metadata gives, as written in the input.           *)
GivenSpan(e) ==
    IF HasKey(e.Metadata, "entity_position")
          /\ Lookup(e.Metadata, "entity_position").kind = "array"
    THEN Lookup(e.Metadata, "entity_position").arr
    ELSE <<>>

SpanInRange(span) == Len(span) = 2 /\ 0 <= span[1] /\ span[1] <= span[2]

(* The number text of a record of the range vocabulary is acceptable.      *)
NumberTextOK(t) == t \in {"0", "0.5", "0.9", "0.95", "1"}

NumbersOK(rec) ==
    /\ rec.Wrapped
    /\ Len(rec.Fields) >= 3
    /\ CASE rec.Fields[1] = "intent" ->
               NumberTextOK(rec.Fields[3]) /\ NumberTextOK(rec.Fields[4])
         [] rec.Fields[1] = "entity" -> NumberTextOK(rec.Fields[4])
         [] OTHER -> NumberTextOK(rec.Fields[3])

OfType(recs, type) ==
    {i \in 1..Len(recs) : recs[i].Wrapped /\ Len(recs[i].Fields) >= 1
                             /\ recs[i].Fields[1] = type}

(* No record with a number outside its range, NaN or infinite is in the    *)
(* analysis, and no position comes from a span outside its range.          *)
RejectedNotClamped(recs, r) ==
    /\ Len(r.Intents) = Cardinality({i \in OfType(recs, "intent") : NumbersOK(recs[i])})
    /\ Len(r.Entities) = Cardinality({i \in OfType(recs, "entity") : NumbersOK(recs[i])})
    /\ Len(r.Languages) =
          Cardinality({i \in OfType(recs, "language") : NumbersOK(recs[i])})
    /\ (r.Sentiment.Label # "") =
          (\E i \in OfType(recs, "sentiment") : NumbersOK(recs[i]))
    /\ \A i \in 1..Len(r.Entities) :
          r.Entities[i].Position # <<>> => SpanInRange(GivenSpan(r.Entities[i]))

OverRangeKinds ==
    /\ pc = "ParserNode.return"
    /\ payload.Fault = "none"
    /\ \A i \in 1..Len(payload.Content) : payload.Content[i] \in RangeKinds

(* C21: in every returned analysis the confidences and priorities lie in   *)
(* [0,1], a sentiment polarity lies in [-1,1] and a subjectivity in [0,1]  *)
(* when present, an entity position satisfies 0 <= start <= end, and a     *)
(* value outside its range, NaN or infinite is rejected, never brought     *)
(* into range.                                                             *)
C21_NumericRanges ==
    (pc = "ParserNode.return" /\ ret.parsed.resp # <<>>) =>
        /\ RangesHold(ret.parsed.resp[1])
        /\ OverRangeKinds => RejectedNotClamped(payload.Content, ret.parsed.resp[1])

(* The ranges alone, which hold of every returned analysis.                *)
RangesAlwaysHold ==
    (pc = "ParserNode.return" /\ ret.parsed.resp # <<>>) => RangesHold(ret.parsed.resp[1])

----------------------------------------------------------------------------
(* Index of the first element whose confidence no other exceeds; 0 for an  *)
(* empty sequence.                                                         *)
FirstMax(items) ==
    IF Len(items) = 0 THEN 0
    ELSE CHOOSE i \in 1..Len(items) :
            \A j \in 1..Len(items) :
                /\ items[j].Confidence <= items[i].Confidence
                /\ j < i => items[j].Confidence < items[i].Confidence

Returned == pc = "ParserNode.return" /\ payload.Fault = "none"

(* C22: the importance score is 0 without intents, and otherwise           *)
(* 0.6 x confidence + 0.4 x priority of the first intent record of         *)
(* maximum confidence, whatever names the intent records carry.            *)
C22_ImportanceScore ==
    Returned =>
        \A r \in {ret.parsed.resp[1]} :
            r.ImportanceScore =
                IF Len(r.Intents) = 0 THEN 0
                ELSE r.Intents[FirstMax(r.Intents)].Confidence * 6
                     + r.Intents[FirstMax(r.Intents)].Priority * 4

(* C23: the primary intent is the name of the first intent of maximum      *)
(* confidence in input order, and empty when there is no valid intent.     *)
C23_PrimaryIntent ==
    Returned =>
        \A r \in {ret.parsed.resp[1]} :
            r.PrimaryIntent =
                IF Len(r.Intents) = 0 THEN "" ELSE r.Intents[FirstMax(r.Intents)].Name

(* C23 witness: two intents of equal, maximal confidence after a lower     *)
(* one; the primary intent is the first of the two.                        *)
C23_Witness ==
    /\ Returned
    /\ payload.Content = <<Rec(<<"intent", "ask_price", "0.9", "0.5">>),
                           Rec(<<"intent", "purchase_intent", "0.9", "0.8">>)>>
    /\ Len(ret.parsed.resp[1].Intents) = 2
    /\ ret.parsed.resp[1].PrimaryIntent = "ask_price"

(* C24: the primary language is the code of the first language entry       *)
(* flagged primary; without a flagged entry, the code of the entry of      *)
(* highest confidence; without language entries, empty.                    *)
C24_PrimaryLanguage ==
    Returned =>
        \A r \in {ret.parsed.resp[1]} :
            LET flagged == {i \in 1..Len(r.Languages) : r.Languages[i].IsPrimary}
            IN  r.PrimaryLanguage =
                    IF flagged # {}
                    THEN r.Languages[CHOOSE i \in flagged : \A j \in flagged : i <= j].Code
                    ELSE IF Len(r.Languages) = 0 THEN ""
                    ELSE r.Languages[FirstMax(r.Languages)].Code

(* C24 witness: two flagged entries of equal confidence; the primary       *)
(* language is the code of the first.                                      *)
C24_Witness ==
    /\ Returned
    /\ payload.Content = <<Rec(<<"language", "eng", "0.9", "1">>),
                           Rec(<<"language", "tha", "0.9", "1">>)>>
    /\ Len(ret.parsed.resp[1].Languages) = 2
    /\ ret.parsed.resp[1].PrimaryLanguage = "eng"

(* A content without a flagged entry: the entry of highest confidence.     *)
HighestConfidenceChosen ==
    /\ Returned
    /\ payload.Content = <<Rec(<<"language", "eng", "0.5", "0">>),
                           Rec(<<"language", "tha", "0.9", "0">>)>>
    /\ ret.parsed.resp[1].PrimaryLanguage = "tha"

----------------------------------------------------------------------------
(* The part of a content in front of its first completion marker, as a     *)
(* content of its own.                                                     *)
FirstMarker(c) ==
    CHOOSE i \in 1..Len(c) : IsMarker(c[i]) /\ \A j \in 1..(i - 1) : ~IsMarker(c[j])

Before(c) ==
    LET i == FirstMarker(c)
    IN  IF c[i].glued /\ i > 1 THEN SubSeq(c, 1, i - 1)
        ELSE SubSeq(c, 1, i - 1) \o <<EmptyRecord>>

HasMarker(c) == \E i \in 1..Len(c) : IsMarker(c[i])

(* The fields of an analysis that come from its records.                   *)
Analysis(r) ==
    [Intents |-> r.Intents, Entities |-> r.Entities, Languages |-> r.Languages,
     Sentiment |-> r.Sentiment, ImportanceScore |-> r.ImportanceScore,
     PrimaryIntent |-> r.PrimaryIntent, PrimaryLanguage |-> r.PrimaryLanguage]

(* C25: parsing stops at the first completion marker: a content X + marker *)
(* + Y within the size cap gives the same intents, entities, languages,    *)
(* sentiment and derived fields as X alone, and no record after the marker *)
(* is in the result.                                                       *)
C25_EndMarker ==
    (Returned /\ HasMarker(payload.Content)
        /\ ContentLen(payload.Content) <= maxContentLen) =>
        \A x \in {Before(payload.Content)}, r \in {ret.parsed.resp[1]} :
            /\ Analysis(r) = Analysis(ParseNLUResponse(x).resp[1])
            /\ Len(r.Intents) = CountOf(x, {ValidIntentRec})
            /\ Len(r.Entities) = CountOf(x, {ValidEntityRec})
            /\ Len(r.Languages) = CountOf(x, {ValidLanguageRec})

(* C25 witness: an intent, the marker, an entity and a second marker; the  *)
(* analysis has the intent and no entity.                                  *)
C25_Witness ==
    /\ Returned
    /\ payload.Content =
          <<ValidIntentRec, EndMarker(TRUE), ValidEntityRec, EndMarker(FALSE)>>
    /\ ret.parsed.resp[1].Intents = <<ItemOf(ValidIntentRec)>>
    /\ ret.parsed.resp[1].Entities = <<>>
    /\ ret.parsed.resp[1].PrimaryIntent = "purchase_intent"

(* Elements to put after a prefix that already holds maxContentLen bytes.  *)
Tails == {<<ValidIntentRec>>, <<ValidLanguageRec, ValidIntentRec>>, <<Pad(1)>>}

(* C26: a content longer than maxContentLen is parsed without failure,     *)
(* the analysis is marked as truncated, and it is the analysis of any      *)
(* other content with the same first maxContentLen bytes; a content        *)
(* within the cap is not marked.                                           *)
C26_SizeCap ==
    Returned =>
        \A c \in {payload.Content} :
            /\ ret.parsed.resp # <<>>
            /\ ret.parsed.err = NoErr
            /\ ret.parsed.resp[1].Truncated = (ContentLen(c) > maxContentLen)
            /\ \A k \in 1..Len(c) :
                  (ContentLen(c) > maxContentLen
                      /\ ContentLen(SubSeq(c, 1, k)) >= maxContentLen) =>
                      \A t \in Tails :
                          ParseNLUResponse(SubSeq(c, 1, k) \o t).resp = ret.parsed.resp

(* C26 witness: the cap falls inside the intent record after the           *)
(* whitespace; the sentiment in front of it is in the analysis, the intent *)
(* and the language after it are not, and the analysis is marked.          *)
C26_Witness ==
    /\ Returned
    /\ \E d \in 1..Size(ValidIntentRec) :
          /\ payload.Content =
                <<ValidSentimentRec, Pad(maxContentLen - d), ValidIntentRec, ValidLanguageRec>>
          /\ ContentLen(SubSeq(payload.Content, 1, 2)) < maxContentLen
          /\ ContentLen(SubSeq(payload.Content, 1, 3)) > maxContentLen
    /\ ret.parsed.resp[1].Truncated
    /\ ret.parsed.resp[1].Sentiment.Label = "negative"
    /\ ret.parsed.resp[1].Intents = <<>>
    /\ ret.parsed.resp[1].Languages = <<>>
    /\ Len(ret.parsed.resp[1].ParsingErrors) = 1

----------------------------------------------------------------------------
NonEmpty(c) == {i \in 1..Len(c) : c[i] # EmptyRecord}

(* The content up to and including its n-th non-empty record.              *)
UpToNonEmpty(c, n) ==
    SubSeq(c, 1, Cardinality({i \in 1..Len(c) :
                                 Cardinality({j \in NonEmpty(c) : j < i}) < n}))

(* Records of kinds that each leave one item or one diagnostic.            *)
CountedKinds == {ValidIntentRec, ValidEntityRec, ValidLanguageRec, UnknownTypeRec, EmptyRecord}

ProcessedCount(r) ==
    Len(r.Intents) + Len(r.Entities) + Len(r.Languages) + Len(r.ParsingErrors)

(* C27: at most 500 non-empty records are processed; the analysis is       *)
(* marked as capped if and only if a non-empty record was left unprocessed *)
(* because of the cap, and the unprocessed records contribute nothing.     *)
C27_RecordCap ==
    (Returned /\ \A i \in 1..Len(payload.Content) : payload.Content[i] \in CountedKinds) =>
        \A c \in {payload.Content}, r \in {ret.parsed.resp[1]} :
            /\ ProcessedCount(r) <= maxRecords
            /\ ProcessedCount(r) =
                  IF Cardinality(NonEmpty(c)) <= maxRecords
                  THEN Cardinality(NonEmpty(c)) ELSE maxRecords
            /\ r.RecordsCapped = (Cardinality(NonEmpty(c)) > maxRecords)
            /\ r.RecordsCapped =>
                  Analysis(r) = Analysis(ParseNLUResponse(UpToNonEmpty(c, maxRecords)).resp[1])

----------------------------------------------------------------------------
Blank(c) == \A i \in 1..Len(c) : c[i] = EmptyRecord \/ IsPad(c[i])

(* C28 as stated: the empty content, and any content of record delimiters  *)
(* and whitespace only, gives a non-nil analysis with empty lists, empty   *)
(* primary intent and language, score 0 and no diagnostic entry, and a nil *)
(* error.                                                                  *)
C28_Original ==
    (Returned /\ Blank(payload.Content)) =>
        ret.parsed = [resp |-> <<EmptyNLUResponse>>, err |-> NoErr]

(* C28 (as amended): the same for the empty content and for contents of    *)
(* record delimiters and whitespace within the size cap; beyond the cap    *)
(* the only difference is the truncation mark.                             *)
C28_EmptyInput ==
    (Returned /\ Blank(payload.Content)) =>
        ret.parsed =
            [resp |-> <<[EmptyNLUResponse EXCEPT
                            !.Truncated = (ContentLen(payload.Content) > maxContentLen)]>>,
             err |-> NoErr]

(* C28 witness: the empty content has been parsed into the empty analysis. *)
C28_Witness ==
    /\ Returned
    /\ payload.Content = <<>>
    /\ ret.parsed.resp = <<EmptyNLUResponse>>
    /\ ret.parsed.err = NoErr
    /\ ret.parsed.resp[1].ParsingErrors = <<>>

----------------------------------------------------------------------------
(* The one language record of a content of LanguageContents.               *)
OneLanguage ==
    /\ Returned
    /\ payload.Content \in LanguageContents
    /\ Len(payload.Content[1].Fields) = 4

CodeField == payload.Content[1].Fields[2]

ConfidenceField == payload.Content[1].Fields[3]

FlagField == payload.Content[1].Fields[4]

(* C29 as stated: a language record is accepted if and only if its code    *)
(* as given is exactly three lowercase ASCII letters and its confidence is *)
(* in [0,1]; an accepted record is primary if and only if its flag field   *)
(* is the literal "1".                                                     *)
C29_Original ==
    OneLanguage =>
        \A langs \in {ret.parsed.resp[1].Languages} :
            /\ (Len(langs) = 1) = (CodeField = "tha" /\ ConfidenceField = "0.9")
            /\ Len(langs) = 1 => (langs[1].IsPrimary = (FlagField = "1"))

(* C29 (as amended): a language record with code, confidence and flag      *)
(* fields is accepted if and only if its code, once surrounding whitespace *)
(* is removed and upper case is turned to lower case, is exactly three     *)
(* lowercase ASCII letters and its confidence is in [0,1]; the code is     *)
(* kept in that lowercase form; the record is primary if and only if its   *)
(* flag field without surrounding whitespace is "1".  A record without a   *)
(* flag field is rejected.                                                 *)
C29_LanguageValidation ==
    /\ OneLanguage =>
          \A langs \in {ret.parsed.resp[1].Languages} :
              /\ (Len(langs) = 1) =
                    (CodeField \in {"tha", "Tha", "ENG", " tha "} /\ ConfidenceField = "0.9")
              /\ Len(langs) = 1 =>
                    /\ langs[1].IsPrimary = (FlagField \in {"1", " 1 "})
                    /\ langs[1].Code = (IF CodeField = "ENG" THEN "eng" ELSE "tha")
                    /\ langs[1].Confidence = 900
              /\ Len(langs) <= 1
              /\ Len(langs) = 0 => Len(ret.parsed.resp[1].ParsingErrors) = 1
    /\ (Returned /\ payload.Content \in LanguageContents
            /\ Len(payload.Content[1].Fields) < 4) =>
          ret.parsed.resp[1].Languages = <<>>

(* C29 witness: a code in upper case with a flag between spaces has been   *)
(* accepted as a primary language with the lowercase code.                 *)
C29_Witness ==
    /\ OneLanguage
    /\ CodeField = "ENG"
    /\ FlagField = " 1 "
    /\ ret.parsed.resp[1].Languages =
          <<[Code |-> "eng", Confidence |-> 900, IsPrimary |-> TRUE, Metadata |-> {}]>>

----------------------------------------------------------------------------
(* The response model's pre-handler has run: payload is the container as   *)
(* it was, trace the messages handed in, state the container afterwards.   *)
AfterPreHandler == pc = "ResponseChatModel.body"

MeetsMaximum == payload.ToolCallCount >= normalizeMaxToolCalls(cfg.ToolMaxCalls)

NoticeAppended ==
    /\ Len(state.History) = Len(payload.History) + Len(trace) + 1
    /\ SubSeq(state.History, 1, Len(payload.History)) = payload.History
    /\ state.History[Len(state.History)] = WrapUpNotice(cfg.ToolMaxCalls)

NothingButInputAppended ==
    /\ Len(state.History) = Len(payload.History) + Len(trace)
    /\ SubSeq(state.History, 1, Len(payload.History)) = payload.History
    /\ \A i \in 1..Len(trace) : ~IsWrapUp(state.History[Len(payload.History) + i])

----------------------------------------------------------------------------
(* The first step body of an invocation is about to run on a container     *)
(* that held payload before the first pre-handler.                         *)
BeforeFirstBody == pc = "InputConverter.body"

----------------------------------------------------------------------------
(* C32: the history is append-only during an invocation: every step leaves *)
(* it unchanged or extends it at the end, so the history before a step is  *)
(* a prefix of the history after it.                                       *)
C32_AppendOnly == [][IsPrefix(state.History, state'.History)]_vars

(* C32 witness: an invocation has ended after a tool round; the history    *)
(* holds the tool request, after it the tool result, and after that the    *)
(* final reply.                                                            *)
C32_Witness ==
    /\ pc = END
    /\ ret.err = NoErr
    /\ \E i, j, k \in 1..Len(state.History) :
          /\ i < j /\ j < k /\ k = Len(state.History)
          /\ state.History[i].Role = "assistant" /\ Len(state.History[i].ToolCalls) > 0
          /\ state.History[j].Role = "tool"
          /\ state.History[k].Role = "assistant"

----------------------------------------------------------------------------
(* The messages the pre-handler appended for the messages handed in.       *)
AppendedInput ==
    SubSeq(state.History, Len(payload.History) + 1, Len(payload.History) + Len(trace))

BlankToolResult(m) == m.Role = "tool" /\ m.ToolCallID \in {"", " "}

RequestsIn(h) == {i \in 1..Len(h) : h[i].Role = "assistant" /\ h[i].ToolCalls # <<>>}

(* C33: a tool result handed in last with a blank tool-call identifier     *)
(* carries, after the pre-handler, the first tool-call identifier of the   *)
(* most recent assistant message with tool calls in the history; a tool    *)
(* result with an identifier, and every other message handed in, is        *)
(* unchanged, and the messages already in the history are not modified.    *)
C33_Backfill ==
    AfterPreHandler =>
        \A n \in {Len(trace)}, h \in {payload.History} :
            /\ SubSeq(state.History, 1, Len(h)) = h
            /\ \A i \in 1..(n - 1) : AppendedInput[i] = trace[i]
            /\ (BlankToolResult(trace[n]) /\ RequestsIn(h) # {}) =>
                  \E i \in RequestsIn(h) :
                      /\ \A j \in RequestsIn(h) : j <= i
                      /\ AppendedInput[n] =
                            [trace[n] EXCEPT !.ToolCallID = h[i].ToolCalls[1].ID]
            /\ ~(BlankToolResult(trace[n]) /\ RequestsIn(h) # {}) =>
                  AppendedInput[n] = trace[n]

(* C33 witness: two tool results without identifiers after two tool        *)
(* requests; the last result carries the first identifier of the second    *)
(* request, the result before it is still without one.                     *)
C33_Witness ==
    /\ AfterPreHandler
    /\ trace = <<ToolMessage("first", ""), ToolMessage("second", " ")>>
    /\ Len(payload.History) = 3
    /\ Len(payload.History[3].ToolCalls) = 2
    /\ payload.History[3].ToolCalls[1].ID = "call_1"
    /\ AppendedInput = <<ToolMessage("first", ""), ToolMessage("second", "call_1")>>

----------------------------------------------------------------------------
NoteMeta == {<<"note", Str("a<||>b")>>}

OverDelimMetaKinds ==
    /\ Returned
    /\ \A i \in 1..Len(payload.Content) : payload.Content[i] \in DelimMetaKinds

HasSentimentRecord ==
    \E i \in 1..Len(payload.Content) : payload.Content[i].Fields[1] = "sentiment"

(* The records of the three types with four fields in front of the         *)
(* metadata are kept with the full metadata map.                           *)
FiveFieldTypesIntact ==
    OverDelimMetaKinds =>
        \A r \in {ret.parsed.resp[1]} :
            /\ Len(r.Intents) = CountOf(payload.Content,
                                        {DelimMetaRec(<<"intent", "ask_price", "0.5", "0.5">>)})
            /\ Len(r.Entities) = CountOf(payload.Content,
                                         {DelimMetaRec(<<"entity", "product", "phone", "0.9">>)})
            /\ Len(r.Languages) = CountOf(payload.Content,
                                          {DelimMetaRec(<<"language", "eng", "0.9", "1">>)})
            /\ \A i \in 1..Len(r.Intents) : r.Intents[i].Metadata = NoteMeta
            /\ \A i \in 1..Len(r.Entities) : r.Entities[i].Metadata = NoteMeta
            /\ \A i \in 1..Len(r.Languages) : r.Languages[i].Metadata = NoteMeta

(* C34: for every record type, a record whose trailing metadata holds the  *)
(* tuple delimiter inside a string value is kept, with the full metadata   *)
(* map parsed from that one field.                                         *)
C34_DelimiterInMetadata ==
    /\ FiveFieldTypesIntact
    /\ (OverDelimMetaKinds /\ HasSentimentRecord) =>
          /\ ret.parsed.resp[1].Sentiment.Label = "negative"
          /\ ret.parsed.resp[1].Sentiment.Metadata = NoteMeta
          /\ ret.parsed.resp[1].ParsingErrors = <<>>

----------------------------------------------------------------------------
StepCeilingError == pc = ERR /\ ret.err = "exceeds max steps"

(* The invocation ended at a response-generation step whose answer still   *)
(* carried tool calls.                                                     *)
EndedRequestingTools ==
    /\ pc = END
    /\ trace # <<>>
    /\ trace[Len(trace)] = NodeResponseChatModel
    /\ payload.ToolCalls # <<>>

(* With a positive setting the ceiling is never reached.                   *)
PositiveSettingWithinCeiling == cfg.ToolMaxCalls >= 1 => ~StepCeilingError

(* C35: for every ToolMaxCalls, the values <= 0 included, an invocation    *)
(* whose response model asks for tools on every round ends without error   *)
(* by the tool-budget cutoff, after as many tool steps as the normalized   *)
(* budget, and the step-ceiling error never occurs.                        *)
C35_BudgetBeforeCeiling ==
    /\ ~StepCeilingError
    /\ EndedRequestingTools =>
          /\ ret.err = NoErr
          /\ state.ToolCallLimitReached
          /\ ToolSteps = normalizeMaxToolCalls(cfg.ToolMaxCalls)

----------------------------------------------------------------------------
Budget == normalizeMaxToolCalls(cfg.ToolMaxCalls)

ToolStepTaken == pc = NodeToolExecutor /\ trace' = Append(trace, NodeToolExecutor)

(* C36: toolCallCount never exceeds the normalized maximum, and neither    *)
(* does the number of tool-execution steps; the tool-execution pre-handler *)
(* never finds the count above the maximum; toolCallLimitReached is set    *)
(* only by the response-generation pre-handler, and once true it stays     *)
(* true for the rest of the invocation.                                    *)
C36_CountWithinBudget ==
    /\ [](state.ToolCallCount <= Budget /\ ToolSteps <= Budget)
    /\ [][ToolStepTaken =>
            /\ ~incrementToolCallAndCheck(state, cfg.ToolMaxCalls).exceeded
            /\ state'.ToolCallCount = state.ToolCallCount + 1
            /\ state'.ToolCallLimitReached = state.ToolCallLimitReached]_vars
    /\ [][(~state.ToolCallLimitReached /\ state'.ToolCallLimitReached) =>
            /\ pc = NodeResponseChatModel
            /\ checkAndMarkToolLimit(state, cfg.ToolMaxCalls).marked]_vars
    /\ [][state.ToolCallLimitReached => state'.ToolCallLimitReached]_vars

(* C36 witness: the budget of two tool steps used up and the flag set by   *)
(* the response-generation step that followed.                             *)
C36_Witness ==
    /\ cfg.ToolMaxCalls = 2
    /\ state.ToolCallCount = 2
    /\ ToolSteps = 2
    /\ state.ToolCallLimitReached
    /\ pc = END
    /\ trace[Len(trace)] = NodeResponseChatModel

----------------------------------------------------------------------------
AppendsOf(role) ==
    {i \in 1..Len(storeOps) : storeOps[i].op = "AddMessage" /\ storeOps[i].Role = role}

EffectiveAppendsOf(role) == {i \in AppendsOf(role) : storeOps[i].res # "push_fail"}

(* C37 as stated: once the input-conversion step has run, the invocation   *)
(* has appended exactly one user message to the store.                     *)
C37_Original ==
    Executions(NodeInputConverter) > 0 =>
        /\ Cardinality(EffectiveAppendsOf("user")) = 1
        /\ IsPrefix(store0[Conv] \o <<UserMessage(in.Query)>>, store[Conv])

(* C37 (as amended): the input-conversion step calls AddMessage once, with *)
(* the user message, before any model call, and no other step appends a    *)
(* user message; the message is in the store unless that push failed.  At  *)
(* most one assistant message is appended, by a response-generation step   *)
(* after which the invocation ends.  Nothing else is written: the store of *)
(* the conversation is what it was plus the appended messages, and the     *)
(* other conversations are untouched.                                      *)
C37_StoreWrites ==
    /\ \A c \in ConvIDs \ {Conv} : store[c] = store0[c]
    /\ store[Conv] = store0[Conv] \o Appended(storeOps)
    /\ Executions(NodeInputConverter) = 0 => storeOps = <<>>
    /\ Executions(NodeInputConverter) > 0 =>
          /\ AppendsOf("user") = {1}
          /\ storeOps[1].Content = in.Query
          /\ AppendsOf("system") = {} /\ AppendsOf("tool") = {}
          /\ AppendsOf("assistant") \subseteq {Len(storeOps)}
          /\ \A i \in AppendsOf("assistant") :
                /\ pc = END
                /\ LastNode = NodeResponseChatModel
                /\ payload.Role = "assistant"
                /\ storeOps[i].Content = payload.Content
                /\ payload.ToolCalls = <<>> \/ state.ToolCallLimitReached
          /\ storeOps[1].res = "push_fail" =>
                pc = ERR /\ store = store0 /\ modelCalls = <<>>
          /\ Executions(NodeHumanHandoff) > 0 => AppendsOf("assistant") = {}

(* C37 witness: an invocation cut off by the budget; of the user message,  *)
(* the tool requests, the tool results, the notice and the last answer in  *)
(* the history, the store gained the user message and the last answer.     *)
C37_Witness ==
    /\ pc = END
    /\ state.ToolCallLimitReached
    /\ ToolSteps = 2
    /\ NoticeCount = 1
    /\ payload.ToolCalls # <<>>
    /\ store[Conv] = store0[Conv] \o <<UserMessage(in.Query),
                                       AssistantMessage("let me check", <<>>)>>

----------------------------------------------------------------------------
(* The tool calls in the history, by message and place.                    *)
CallPlaces ==
    UNION { { <<i, j>> : j \in 1..Len(state.History[i].ToolCalls) } :
            i \in 1..Len(state.History) }

CallID(p) == state.History[p[1]].ToolCalls[p[2]].ID

Synthesized == { SynthID(k) : k \in 1..state.ToolCallIDSeq }

ModelIDs ==
    UNION { { r.Msg.ToolCalls[j].ID : j \in 1..Len(r.Msg.ToolCalls) } :
            r \in RespResults } \ {""}

AfterPostHandler ==
    LastNode = NodeResponseChatModel /\ pc \in {END, NodeToolExecutor}

(* The output of the step is an answer of the model with the blank         *)
(* identifiers replaced by the next ones of the sequence, in order.        *)
OutputOf(r, seq) ==
    /\ payload.Content = r.Msg.Content
    /\ Len(payload.ToolCalls) = Len(r.Msg.ToolCalls)
    /\ \A j \in 1..Len(r.Msg.ToolCalls) :
          /\ payload.ToolCalls[j].Name = r.Msg.ToolCalls[j].Name
          /\ IF TrimSpace(r.Msg.ToolCalls[j].ID) # ""
             THEN payload.ToolCalls[j].ID = r.Msg.ToolCalls[j].ID
             ELSE payload.ToolCalls[j].ID =
                    SynthID(seq - Cardinality({k \in j + 1..Len(r.Msg.ToolCalls) :
                                                 TrimSpace(r.Msg.ToolCalls[k].ID) = ""}))

(* C38 as stated, last part: all tool-call identifiers in the history of   *)
(* one invocation are pairwise distinct.                                   *)
C38_Original ==
    \A p, q \in CallPlaces : p # q => CallID(p) # CallID(q)

(* C38 (as amended): after the post-handler every tool call of the output  *)
(* has a non-blank identifier and the identifiers the model supplied are   *)
(* unchanged; toolCallIDSequence never decreases; the identifiers          *)
(* synthesized so far are call_1 .. call_<sequence>, each borne by exactly *)
(* one tool call of the history, every other identifier there being one    *)
(* the model supplied.                                                     *)
C38_SynthesizedIDs ==
    /\ [](AfterPostHandler =>
            /\ \A j \in 1..Len(payload.ToolCalls) :
                  TrimSpace(payload.ToolCalls[j].ID) # ""
            /\ \E r \in RespResults : OutputOf(r, state.ToolCallIDSeq))
    /\ [][state'.ToolCallIDSeq >= state.ToolCallIDSeq]_vars
    /\ [](/\ \A id \in Synthesized :
                Cardinality({p \in CallPlaces : CallID(p) = id}) = 1
           /\ \A p \in CallPlaces : CallID(p) \in Synthesized \cup ModelIDs
           /\ Synthesized \cap ModelIDs = {})

(* C38 witness: two identifiers synthesized in two rounds.                 *)
C38_Witness ==
    /\ AfterPostHandler
    /\ state.ToolCallIDSeq = 2
    /\ Len(payload.ToolCalls) = 3
    /\ payload.ToolCalls[1].ID = "call_2"
    /\ payload.ToolCalls[2].ID = "id_c"
    /\ \E p \in CallPlaces : p[1] < Len(state.History) /\ CallID(p) = "call_1"

----------------------------------------------------------------------------
FirstResponseCall ==
    pc = NodeResponseChatModel /\ Executions(NodeResponseChatModel) = 0

(* The message list the response model is called with.                     *)
GivenToModel == ResponseChatModelPreHandler(payload, state, cfg.ToolMaxCalls).out

OtherAppended == Appended(parked[1].storeOps)

(* The other invocation on the conversation has written nothing, or it     *)
(* has ended and all it wrote precedes the user message of this one.       *)
Uninterleaved ==
    \/ OtherAppended = <<>>
    \/ /\ parked[1].pc \in Terminal
       /\ store[Conv] = store0[Conv] \o OtherAppended \o <<UserMessage(in.Query)>>

(* C39: with no other invocation in flight on the conversation, the list   *)
(* the response model gets on its first call is one system prompt followed *)
(* by the stored history in stored order, the user message of the current  *)
(* query last.                                                             *)
C39_ResponseContext ==
    (FirstResponseCall /\ Uninterleaved) =>
        /\ GivenToModel = <<SystemMessage("response_system_prompt")>> \o store[Conv]
        /\ GivenToModel[Len(GivenToModel)] = UserMessage(in.Query)
        /\ OtherAppended = <<>> =>
              store[Conv] = store0[Conv] \o <<UserMessage(in.Query)>>

(* C39 witness: the first response call on a conversation with a stored    *)
(* exchange, the other invocation not started.                             *)
C39_Witness ==
    /\ FirstResponseCall
    /\ parked[1].trace = <<>>
    /\ GivenToModel = <<SystemMessage("response_system_prompt"), UserMessage("hi"),
                        AssistantMessage("hello", <<>>), UserMessage(in.Query)>>

(* Interleaved on one conversation: the list ends with the user message of *)
(* the other invocation.                                                   *)
C39_InterleavedLast ==
    /\ FirstResponseCall
    /\ parked[1].in.Query # in.Query
    /\ GivenToModel[Len(GivenToModel)] = UserMessage(parked[1].in.Query)

----------------------------------------------------------------------------
OverSentimentKinds ==
    /\ Returned
    /\ \A i \in 1..Len(payload.Content) : payload.Content[i] \in SentimentKinds

(* The places of the records that are sentiment records with a label and   *)
(* a confidence in [0,1].                                                  *)
ValidSentimentPlaces ==
    {i \in 1..Len(payload.Content) : payload.Content[i] \in ValidSentimentKinds}

LastValidSentiment ==
    payload.Content[CHOOSE i \in ValidSentimentPlaces :
                        \A j \in ValidSentimentPlaces : j <= i]

HandoffDecided == HumanHandoffCondition(ret.node.out[1]) = NodeHumanHandoff

(* C40: the returned sentiment is that of the last valid sentiment record  *)
(* in input order, whatever invalid sentiment records and other records    *)
(* come before, between or after; the handoff decision follows it; with no *)
(* valid sentiment record the label is empty and the confidence 0.         *)
C40_LastValidSentiment ==
    OverSentimentKinds =>
        \A s \in {ret.parsed.resp[1].Sentiment} :
            IF ValidSentimentPlaces = {}
            THEN /\ s = [Label |-> "", Confidence |-> 0, Metadata |-> {}]
                 /\ ~HandoffDecided
            ELSE \A rec \in {LastValidSentiment} :
                    /\ s.Label = TrimSpace(rec.Fields[2])
                    /\ s.Confidence = parseFloat(rec.Fields[3]).v
                    /\ s.Metadata = IF Len(rec.Fields) = 4 /\ rec.Fields[4] = "{\"k\":1}"
                                    THEN {<<"k", Num(1000)>>} ELSE {}
                    /\ HandoffDecided = (rec = ValidSentimentRec)

(* C40 witness: a valid negative sentiment, then a valid positive one: the *)
(* second is returned and no handoff is decided; and the same first record *)
(* followed by an invalid one, which leaves it in place.                   *)
C40_Witness ==
    /\ OverSentimentKinds
    /\ \/ /\ payload.Content = <<ValidSentimentRec, Rec(<<"sentiment", " positive ", "0.8">>)>>
          /\ ret.parsed.resp[1].Sentiment.Label = "positive"
          /\ ret.parsed.resp[1].Sentiment.Confidence = 800
          /\ ~HandoffDecided
       \/ /\ payload.Content = <<ValidSentimentRec, Rec(<<"sentiment", "negative", "1.5">>)>>
          /\ ret.parsed.resp[1].Sentiment.Label = "negative"
          /\ ret.parsed.resp[1].Sentiment.Confidence = 950
          /\ HandoffDecided

====
